---- MODULE Spec2Model ----
(***************************************************************************)
(* Agent usage analytics and XP engine of claude-code-subagents:           *)
(*   gamification/core/agent_logs_analyzer.py  (AgentLogsAnalyzer)         *)
(*   gamification/core/xp_system_redesign.py   (XPSystemRedesign)          *)
(*   arena-backend/app/services/xp_calculator.py (XPCalculationEngine)     *)
(*   gamification/core/feature_coordinator.py  (FeatureCoordinator)        *)
(*   gamification/core/agent_registry.py       (AgentRegistry)             *)
(*   gamification/core/agents_tracker.py       (AgentsTracker)             *)
(*   arena-backend/app/services/notification_service.py                    *)
(*                                             (ConnectionManager)         *)
(*                                                                         *)
(* Text is modelled as a sequence of whitespace-separated words; the       *)
(* regular expressions of the analyzer are modelled by what they capture   *)
(* from each word of the vocabulary the logs are drawn from.  Floats are   *)
(* exact rationals [num, den] (or integers in thousandths where noted).    *)
(***************************************************************************)
EXTENDS Integers, Sequences, FiniteSets, TLC

VARIABLES
    log_dir,        \* name of the project directory holding the log file
    lines,          \* the lines of the .jsonl log file, in file order
    pc,             \* position of the analysis run (CLI "analyze")
    invocations,    \* List[AgentInvocation] returned by parse_conversation_logs
    formations,     \* List[SquadFormation] returned by detect_squad_formations
    agent_xp,       \* Dict[str, AgentXPCalculation] returned by calculate_agent_xp
    xp_in,          \* XP value handed to the level lookups
    levels,         \* the three level lookups' results for xp_in
    session_data,   \* input of XPSystemRedesign.calculate_session_xp
    session_xp,     \* its result (total_xp, breakdown)
    tree,           \* the log tree: whether the directory exists, and its files
    runs,           \* the analysis runs working on the tree, by run id
    now,            \* the wall clock, in seconds
    plans_file,     \* ~/.claude/feature_plans.json
    coordinators,   \* the FeatureCoordinator instances, by instance id
    squad_tracker,  \* what the name SquadTracker is bound to in feature_coordinator
    stats_file,     \* ~/.claude/agent_stats.json
    registry,       \* an AgentRegistry instance and its cache file
    agent_files,    \* the agent .md files under the registry's search paths
    tracker,        \* an AgentsTracker instance (its data, its last result)
    manager         \* the ConnectionManager of the notification service

vars == <<log_dir, lines, pc, invocations, formations, agent_xp,
          xp_in, levels, session_data, session_xp,
          tree, runs, now, plans_file, coordinators, squad_tracker, stats_file,
          registry, agent_files, tracker, manager>>

analyzer_vars == <<log_dir, lines, pc, invocations, formations, agent_xp>>
level_vars == <<xp_in, levels>>
session_vars == <<session_data, session_xp>>
tree_vars == <<tree, runs>>
coordinator_vars == <<now, plans_file, coordinators, squad_tracker, stats_file>>
peripheral_vars == <<registry, agent_files, tracker, manager>>

\* ------------------------------------------------------------------------
\* Generic helpers
\* ------------------------------------------------------------------------

Range(s) == {s[i] : i \in DOMAIN s}

Min(a, b) == IF a <= b THEN a ELSE b
Max(a, b) == IF a >= b THEN a ELSE b

RECURSIVE SumSeq(_)
SumSeq(s) == IF s = <<>> THEN 0 ELSE Head(s) + SumSeq(Tail(s))

RECURSIVE Concat(_)
Concat(ss) == IF ss = <<>> THEN <<>> ELSE Head(ss) \o Concat(Tail(ss))

RECURSIVE Gcd(_, _)
Gcd(a, b) == IF b = 0 THEN a ELSE Gcd(b, a % b)

\* An exact rational in lowest terms (den > 0, num >= 0).
Rat(n, d) == LET g == Gcd(n, d) IN [num |-> n \div g, den |-> d \div g]
RatAdd(p, q) == Rat(p.num * q.den + q.num * p.den, p.den * q.den)
RatLeq(p, q) == p.num * q.den <= q.num * p.den

\* Python's key-absent marker for dict lookups.
Absent == "<absent>"

\* ------------------------------------------------------------------------
\* AgentLogsAnalyzer.__init__: the analyzer's tables
\* ------------------------------------------------------------------------

\* self.specialization_categories, in dict (insertion) order.
specialization_categories == <<
    [spec |-> "python",
     agents |-> {"python-elite", "python-pro", "data-engineer", "ai-engineer", "ml-engineer"}],
    [spec |-> "javascript",
     agents |-> {"javascript-pro", "frontend-developer", "full-stack-architect"}],
    [spec |-> "backend",
     agents |-> {"backend-architect", "golang-pro", "rust-pro", "sql-pro"}],
    [spec |-> "infrastructure",
     agents |-> {"devops-engineer", "cloud-architect", "deployment-engineer", "incident-commander"}],
    [spec |-> "quality",
     agents |-> {"test-engineer", "code-reviewer", "performance-engineer", "quality-engineer"}],
    [spec |-> "security", agents |-> {"security-auditor"}],
    [spec |-> "data",
     agents |-> {"data-engineer", "data-ai-ml-engineer", "ml-engineer", "ai-engineer"}],
    [spec |-> "business",
     agents |-> {"business-analyst", "content-marketer", "user-feedback-analyst"}],
    [spec |-> "product",
     agents |-> {"api-documenter", "dx-optimizer", "tech-portfolio-resume-review-specialist"}] >>

\* self.squad_formations, in dict order.
squad_formations == <<
    [name |-> "full-stack",
     agents |-> {"frontend-developer", "backend-architect", "database-optimizer"}],
    [name |-> "data-pipeline",
     agents |-> {"data-engineer", "ai-engineer", "devops-engineer"}],
    [name |-> "security-audit",
     agents |-> {"security-auditor", "code-reviewer", "devops-engineer"}],
    [name |-> "performance-optimization",
     agents |-> {"performance-engineer", "database-optimizer", "cloud-architect"}],
    [name |-> "feature-development",
     agents |-> {"frontend-developer", "backend-architect", "test-engineer"}],
    [name |-> "ml-deployment",
     agents |-> {"ml-engineer", "devops-engineer", "cloud-architect"}],
    [name |-> "incident-response",
     agents |-> {"incident-commander", "devops-troubleshooter", "security-auditor"}] >>

\* self.xp_levels: (threshold, level) pairs.
xp_levels == <<
    [threshold |-> 0, level |-> 1], [threshold |-> 100, level |-> 2],
    [threshold |-> 300, level |-> 3], [threshold |-> 600, level |-> 4],
    [threshold |-> 1000, level |-> 5], [threshold |-> 1500, level |-> 6],
    [threshold |-> 2500, level |-> 7], [threshold |-> 4000, level |-> 8],
    [threshold |-> 6000, level |-> 9], [threshold |-> 10000, level |-> 10] >>

\* ------------------------------------------------------------------------
\* The vocabulary of the modelled logs and what str.lower(), str.split('-')
\* and the three agent_patterns do on each word of it.
\* ------------------------------------------------------------------------

\* str.lower() of a word.
Lower(w) ==
    CASE w = "Failed" -> "failed"
      [] w = "Error:" -> "error:"
      [] w = "Resolved" -> "resolved"
      [] w = "API" -> "api"
      [] OTHER -> w

LowerText(text) == [i \in DOMAIN text |-> Lower(text[i])]

\* len(text) of the words joined by single blanks.
TextLen(text) ==
    IF text = <<>> THEN 0
    ELSE SumSeq([i \in DOMAIN text |-> Len(text[i])]) + (Len(text) - 1)

\* re.findall(direct_call) inside one word: '/' followed by identifier
\* characters (an optional "agents/" prefix is consumed, not captured).
DirectCallCaptures(w) ==
    CASE w = "/backend-architect" -> <<"backend-architect">>
      [] w = "/security-auditor" -> <<"security-auditor">>
      [] w = "/tmp" -> <<"tmp">>
      [] OTHER -> <<>>

\* The capture group shared by context_mention and squad_mention: identifier
\* characters ending in  -(pro|elite|engineer|architect|specialist|analyst|
\* developer|commander|optimizer|auditor).  The name it captures starting at
\* the first character of the word, "" when it cannot match there.
RoleSuffixedAtStart(w) ==
    IF w \in {"backend-architect", "security-auditor", "data-engineer"}
    THEN w ELSE ""

\* The same group matched at the earliest position inside the word (the lazy
\* '.*?' of squad_mention may skip a leading '/').
RoleSuffixedInside(w) ==
    CASE RoleSuffixedAtStart(w) # "" -> RoleSuffixedAtStart(w)
      [] w = "/backend-architect" -> "backend-architect"
      [] w = "/security-auditor" -> "security-auditor"
      [] OTHER -> ""

ContextVerbs == {"using", "with", "invoke", "call", "run"}
SquadWords == {"squad", "team", "collaboration", "together"}

\* name.split('-')
NameParts(name) ==
    CASE name = "backend-architect" -> {"backend", "architect"}
      [] name = "security-auditor" -> {"security", "auditor"}
      [] name = "data-engineer" -> {"data", "engineer"}
      [] OTHER -> {name}

agent_keywords == {
    "pro", "elite", "engineer", "architect", "specialist",
    "analyst", "developer", "commander", "optimizer", "auditor",
    "python", "javascript", "golang", "rust", "frontend", "backend",
    "data", "ml", "ai", "devops", "cloud", "security", "test" }

_is_valid_agent_name(name) == NameParts(name) \cap agent_keywords # {}

\* re.findall(direct_call, text_lower): the captures, left to right.
DirectMatches(text) ==
    Concat([i \in DOMAIN text |-> DirectCallCaptures(text[i])])

\* re.findall(context_mention, text_lower): a verb, blanks, a suffixed name.
ContextMatches(text) ==
    Concat([i \in DOMAIN text |->
        IF /\ text[i] \in ContextVerbs
           /\ i + 1 <= Len(text)
           /\ RoleSuffixedAtStart(text[i + 1]) # ""
        THEN <<RoleSuffixedAtStart(text[i + 1])>> ELSE <<>>])

\* re.findall(squad_mention, text_lower): scanning from word i, a squad word
\* and the first suffixed name after it; the scan resumes behind that name.
RECURSIVE SquadScan(_, _, _)
SquadScan(text, i, armed) ==
    IF i > Len(text) THEN <<>>
    ELSE IF armed /\ RoleSuffixedInside(text[i]) # ""
         THEN <<RoleSuffixedInside(text[i])>> \o SquadScan(text, i + 1, FALSE)
         ELSE SquadScan(text, i + 1, armed \/ text[i] \in SquadWords)

SquadMatches(text) == SquadScan(text, 1, FALSE)

\* list(a_set): the elements in the iteration order of this process' string
\* hashing, given as an order on the agent names.
ListOfSet(S, hash_order) == SelectSeq(hash_order, LAMBDA n : n \in S)

\* detect_agent_invocations collecting the matches in a list instead of a set.
DetectWithoutDedupe(text, hash_order) ==
    LET text_lower == LowerText(text)
        all == DirectMatches(text_lower) \o ContextMatches(text_lower)
                   \o SquadMatches(text_lower)
    IN SelectSeq(all, _is_valid_agent_name)

\* AgentLogsAnalyzer.detect_agent_invocations, without the final list().
AgentsFound(text) ==
    LET text_lower == LowerText(text)
        all == DirectMatches(text_lower) \o ContextMatches(text_lower)
                   \o SquadMatches(text_lower)
    IN {all[k] : k \in {j \in DOMAIN all : _is_valid_agent_name(all[j])}}

detect_agent_invocations(text, hash_order) == ListOfSet(AgentsFound(text), hash_order)

\* ------------------------------------------------------------------------
\* Log entries
\* ------------------------------------------------------------------------

\* datetime.fromisoformat(timestamp_str.replace('Z', '+00:00')): ok is FALSE
\* when it raises; secs counts from 2025-01-01T00:00:00Z.
fromisoformat(timestamp_str) ==
    CASE timestamp_str = "2025-01-01T10:00:00Z" -> [ok |-> TRUE, secs |-> 36000]
      [] timestamp_str = "2025-01-01T10:10:00Z" -> [ok |-> TRUE, secs |-> 36600]
      [] timestamp_str = "2025-01-01T12:00:00Z" -> [ok |-> TRUE, secs |-> 43200]
      [] timestamp_str = "2025-01-02T09:00:00Z" -> [ok |-> TRUE, secs |-> 118800]
      [] OTHER -> [ok |-> FALSE, secs |-> 0]

\* datetime.date() of a timestamp, as a day number.
DateOf(secs) == secs \div 86400

\* The JSON-shaped substrings _extract_tools_from_entry searches for, by the
\* word holding them.
ToolOfWord(w) ==
    CASE w = "\"name\":\"Bash\"" -> "bash"
      [] w = "\"name\":\"Edit\"" -> "edit"
      [] OTHER -> ""

\* The complexity indicators that occur as substrings of a lower-cased word.
IndicatorsOfWord(w) ==
    CASE w = "design" -> {"design"}
      [] w = "review" -> {"review"}
      [] OTHER -> {}

\* "error" in w or "failed" in w, for a lower-cased word.
HasErrorText(w) == w \in {"error", "error:", "failed"}

\* AgentLogsAnalyzer._extract_message_content: the text of a string content
\* when the message is a dict, "" when the message is any other JSON value.
_extract_message_content(entry) ==
    IF entry.message.json = "object" THEN entry.message.content ELSE <<>>

\* AgentLogsAnalyzer._extract_tools_from_entry
_extract_tools_from_entry(entry) ==
    IF entry.type = "assistant"
    THEN {ToolOfWord(w) : w \in Range(entry.message.content)} \ {""}
    ELSE {}

\* AgentLogsAnalyzer._extract_token_usage
_extract_token_usage(entry) ==
    IF entry.type = "assistant"
    THEN entry.message.usage.input_tokens + entry.message.usage.output_tokens
             + entry.message.usage.cache_read_input_tokens
    ELSE 0

LookaheadWindow == 5

\* AgentLogsAnalyzer._determine_task_success(entries, start_idx): the success
\* flag.  Python's start_idx is 0-based and entries 1-based here, so
\* range(start_idx, min(start_idx + 5, len(entries))) is idx .. idx + 4.
RECURSIVE ScanForError(_, _, _)
ScanForError(entries, i, last) ==
    IF i > last THEN TRUE
    ELSE IF entries[i].toolUseResult # Absent /\ entries[i].toolUseResult = "Error"
         THEN FALSE
         ELSE LET content == LowerText(_extract_message_content(entries[i]))
              IN IF content # <<>> /\ \E k \in DOMAIN content : HasErrorText(content[k])
                 THEN FALSE
                 ELSE ScanForError(entries, i + 1, last)

\* _determine_task_success looking no further than the entry after the
\* invoking one.
DetermineSuccessNextEntryOnly(entries, idx) ==
    ScanForError(entries, idx, Min(idx + 1, Len(entries)))

_determine_task_success(entries, idx) ==
    ScanForError(entries, idx, Min(idx + LookaheadWindow - 1, Len(entries)))

\* AgentLogsAnalyzer._calculate_complexity_score, in thousandths.
_calculate_complexity_score(content, tools_used, tokens_used) ==
    LET length_part == Min(TextLen(content), 2000)
        tool_part == Cardinality(tools_used) * 300
        token_part == IF tokens_used > 2000 THEN 2000
                      ELSE IF tokens_used > 1000 THEN 1000
                      ELSE IF tokens_used > 500 THEN 500 ELSE 0
        indicators == UNION {IndicatorsOfWord(w) : w \in Range(LowerText(content))}
        score == length_part + tool_part + token_part + Cardinality(indicators) * 200
    IN Min(score, 5000)

\* AgentLogsAnalyzer._extract_project_path: "-a-b-" decodes to "/a/b", any
\* other directory name is returned unchanged.
_extract_project_path(parent_dir) ==
    CASE parent_dir = "-srv-python-api-" -> "/srv/python/api"
      [] OTHER -> parent_dir

\* The body of the loop of _extract_agent_invocations_from_entries for the
\* entry at idx: the invocations it appends.  The record keeps the fields the
\* analysis reads; task_description, error_message, model and git_branch are
\* copied from the entry and never read again.
EntryInvocations(entries, idx, project_path, hash_order) ==
    LET entry == entries[idx] IN
    IF entry.type \notin {"user", "assistant"} THEN <<>>
    ELSE IF entry.timestamp = Absent \/ entry.timestamp = "" THEN <<>>
    ELSE IF ~fromisoformat(entry.timestamp).ok THEN <<>>
    ELSE LET content == _extract_message_content(entry) IN
    IF content = <<>> THEN <<>>
    ELSE LET agents_mentioned == detect_agent_invocations(content, hash_order)
             tools_used == _extract_tools_from_entry(entry)
             tokens_used == _extract_token_usage(entry)
             success == _determine_task_success(entries, idx)
         IN [k \in DOMAIN agents_mentioned |->
                [agent_name |-> agents_mentioned[k],
                 session_id |-> IF entry.sessionId = Absent THEN "unknown"
                                ELSE entry.sessionId,
                 timestamp |-> fromisoformat(entry.timestamp).secs,
                 project_path |-> project_path,
                 tools_used |-> tools_used,
                 success |-> success,
                 tokens_used |-> tokens_used,
                 collaboration_agents |-> <<>>,
                 complexity_score |->
                     _calculate_complexity_score(content, tools_used, tokens_used)]]

\* The exceptions the loop body lets escape for the entry at idx: entry.get
\* on a JSON value that is not an object (line 269), and usage.get on a usage
\* that is not an object, reached for an assistant entry that mentions an
\* agent (lines 294 and 367-371).  The timestamp parse has its own bare
\* except; nothing else in the method catches.
EntryRaises(entries, idx) ==
    LET entry == entries[idx] IN
    IF entry.json # "object" THEN TRUE
    ELSE IF entry.type \notin {"user", "assistant"} THEN FALSE
    ELSE IF entry.timestamp = Absent \/ entry.timestamp = "" THEN FALSE
    ELSE IF ~fromisoformat(entry.timestamp).ok THEN FALSE
    ELSE LET content == _extract_message_content(entry) IN
    IF content = <<>> THEN FALSE
    ELSE /\ AgentsFound(content) # {}
         /\ entry.type = "assistant"
         /\ entry.message.usage_json # "object"

\* Whether _extract_agent_invocations_from_entries raises instead of
\* returning.
ExtractionRaises(entries) == \E idx \in DOMAIN entries : EntryRaises(entries, idx)

\* AgentLogsAnalyzer._extract_agent_invocations_from_entries
_extract_agent_invocations_from_entries(entries, project_path, hash_order) ==
    Concat([idx \in DOMAIN entries |->
                EntryInvocations(entries, idx, project_path, hash_order)])

\* _parse_jsonl_file giving up at the first line json.loads rejects.
RECURSIVE ParseUntilMalformed(_)
ParseUntilMalformed(file_lines) ==
    IF file_lines = <<>> \/ Head(file_lines).kind = "malformed" THEN <<>>
    ELSE <<Head(file_lines).entry>> \o ParseUntilMalformed(Tail(file_lines))

\* AgentLogsAnalyzer._parse_jsonl_file: blank lines and lines json.loads
\* rejects are dropped, every other line yields the JSON value it holds,
\* object or not.
_parse_jsonl_file(file_lines) ==
    LET good == SelectSeq(file_lines, LAMBDA l : l.kind \in {"object", "value"})
    IN [i \in DOMAIN good |-> good[i].entry]

\* The session ids of an invocation list, in order of first appearance (the
\* key order of the sessions dict).
RECURSIVE SessionOrder(_, _)
SessionOrder(invs, seen) ==
    IF invs = <<>> THEN <<>>
    ELSE IF Head(invs).session_id \in seen THEN SessionOrder(Tail(invs), seen)
    ELSE <<Head(invs).session_id>>
             \o SessionOrder(Tail(invs), seen \cup {Head(invs).session_id})

SessionInvocations(invs, sid) == SelectSeq(invs, LAMBDA inv : inv.session_id = sid)

\* _add_collaboration_context without the "name != inv.agent_name" filter.
AddCollaborationUnfiltered(invs) ==
    [i \in DOMAIN invs |->
        LET session_invocations == SessionInvocations(invs, invs[i].session_id)
        IN IF Len(session_invocations) > 1
           THEN [invs[i] EXCEPT !.collaboration_agents =
                    [k \in DOMAIN session_invocations |->
                        session_invocations[k].agent_name]]
           ELSE invs[i]]

\* _add_collaboration_context grouping by session and project, so that only
\* invocations of the same log directory are linked.
AddCollaborationWithinProject(invs) ==
    [i \in DOMAIN invs |->
        LET session_invocations ==
                SelectSeq(invs, LAMBDA inv : /\ inv.session_id = invs[i].session_id
                                             /\ inv.project_path = invs[i].project_path)
            agent_names == [k \in DOMAIN session_invocations |->
                                session_invocations[k].agent_name]
        IN IF Len(session_invocations) > 1
           THEN [invs[i] EXCEPT !.collaboration_agents =
                    SelectSeq(agent_names, LAMBDA name : name # invs[i].agent_name)]
           ELSE invs[i]]

\* _add_collaboration_context returning the invocations session by session
\* (the values of its sessions dict) instead of the list it was given.
AddCollaborationRegrouped(invs) ==
    LET order == SessionOrder(invs, {})
        linked == [i \in DOMAIN invs |->
            LET session_invocations == SessionInvocations(invs, invs[i].session_id)
                agent_names == [k \in DOMAIN session_invocations |->
                                    session_invocations[k].agent_name]
            IN IF Len(session_invocations) > 1
               THEN [invs[i] EXCEPT !.collaboration_agents =
                        SelectSeq(agent_names, LAMBDA name : name # invs[i].agent_name)]
               ELSE invs[i]]
    IN Concat([k \in DOMAIN order |-> SessionInvocations(linked, order[k])])

\* AgentLogsAnalyzer._add_collaboration_context
_add_collaboration_context(invs) ==
    [i \in DOMAIN invs |->
        LET session_invocations == SessionInvocations(invs, invs[i].session_id)
            agent_names == [k \in DOMAIN session_invocations |->
                                session_invocations[k].agent_name]
        IN IF Len(session_invocations) > 1
           THEN [invs[i] EXCEPT !.collaboration_agents =
                    SelectSeq(agent_names, LAMBDA name : name # invs[i].agent_name)]
           ELSE invs[i]]

\* Whether parse_conversation_logs raises: its loop over the files has no
\* try, so an exception of the extraction of any file leaves the method.
ParseRaises(log_files) ==
    \E f \in DOMAIN log_files : ExtractionRaises(_parse_jsonl_file(log_files[f].lines))

\* AgentLogsAnalyzer.parse_conversation_logs over the log files found, each
\* a record [dir, lines]; the files are in sorted path order.
parse_conversation_logs(log_files, hash_order) ==
    LET per_file == [f \in DOMAIN log_files |->
            LET entries == _parse_jsonl_file(log_files[f].lines)
            IN IF entries = <<>> THEN <<>>
               ELSE _extract_agent_invocations_from_entries(
                        entries, _extract_project_path(log_files[f].dir), hash_order)]
    IN _add_collaboration_context(Concat(per_file))

\* ------------------------------------------------------------------------
\* Squad formations
\* ------------------------------------------------------------------------

\* list.sort(key=lambda x: x.timestamp): a stable sort by timestamp.
RECURSIVE InsertByTimestamp(_, _)
InsertByTimestamp(sorted, inv) ==
    IF sorted = <<>> THEN <<inv>>
    ELSE IF Head(sorted).timestamp <= inv.timestamp
         THEN <<Head(sorted)>> \o InsertByTimestamp(Tail(sorted), inv)
         ELSE <<inv>> \o sorted

RECURSIVE SortByTimestamp(_)
SortByTimestamp(invs) ==
    IF invs = <<>> THEN <<>>
    ELSE InsertByTimestamp(SortByTimestamp(SubSeq(invs, 1, Len(invs) - 1)),
                           invs[Len(invs)])

\* The categories of specialization_categories that list the agent.
SpecializationsOf(agent) ==
    {specialization_categories[c].spec : c \in
        {d \in DOMAIN specialization_categories :
            agent \in specialization_categories[d].agents}}

\* sorted() of the category names: their alphabetical order.
CategoriesSorted == <<"backend", "business", "data", "infrastructure", "javascript",
                      "product", "python", "quality", "security">>

RECURSIVE JoinHyphen(_)
JoinHyphen(names) ==
    IF names = <<>> THEN ""
    ELSE IF Len(names) = 1 THEN names[1]
    ELSE names[1] \o "-" \o JoinHyphen(Tail(names))

\* AgentLogsAnalyzer._classify_squad_formation
_classify_squad_formation(agents) ==
    LET agent_set == Range(agents)
        hits == {f \in DOMAIN squad_formations :
                    Cardinality(agent_set \cap squad_formations[f].agents) >= 2}
        specializations == UNION {SpecializationsOf(a) : a \in agent_set}
    IN IF hits # {}
       THEN squad_formations[CHOOSE f \in hits : \A g \in hits : f <= g].name
       ELSE IF Cardinality(specializations) >= 3 THEN "multi-disciplinary"
       ELSE IF Cardinality(specializations) = 2
            THEN JoinHyphen(SelectSeq(CategoriesSorted,
                                      LAMBDA c : c \in specializations))
       ELSE "specialized"

SuccessCount(invs) == Cardinality({i \in DOMAIN invs : invs[i].success})

\* AgentLogsAnalyzer._calculate_synergy_score, as an exact rational.
_calculate_synergy_score(agents, invs) ==
    IF Len(agents) < 2 THEN Rat(0, 1)
    ELSE
    LET specializations == UNION {SpecializationsOf(a) : a \in Range(agents)}
        specialization_score == Rat(Cardinality(specializations), Len(agents))
        success_rate == Rat(SuccessCount(invs), Len(invs))
        timestamps == SortByTimestamp(invs)
        time_spans == [i \in 1 .. (Len(timestamps) - 1) |->
                          timestamps[i + 1].timestamp - timestamps[i].timestamp]
        gap_sum == SumSeq(time_spans)
        \* max(0, 1 - avg_gap / 3600) with avg_gap = gap_sum / len(time_spans)
        coordination_score ==
            IF time_spans = <<>> THEN Rat(1, 1)
            ELSE IF gap_sum >= 3600 * Len(time_spans) THEN Rat(0, 1)
            ELSE Rat(3600 * Len(time_spans) - gap_sum, 3600 * Len(time_spans))
        total == RatAdd(RatAdd(specialization_score, success_rate), coordination_score)
    IN Rat(total.num, total.den * 3)

\* The SquadFormation detect_squad_formations builds for one session from
\* its timestamp-sorted invocations and its agent list (lines 478-499).
FormationOf(session_id, session_invocations, agents) ==
    LET total_tasks == Len(session_invocations)
    IN [session_id |-> session_id,
        agents |-> agents,
        start_time |-> session_invocations[1].timestamp,
        end_time |-> session_invocations[Len(session_invocations)].timestamp,
        project_path |-> session_invocations[1].project_path,
        total_tasks |-> total_tasks,
        success_rate |-> IF total_tasks > 0
                         THEN Rat(SuccessCount(session_invocations), total_tasks)
                         ELSE Rat(0, 1),
        synergy_score |-> _calculate_synergy_score(agents, session_invocations),
        formation_type |-> _classify_squad_formation(agents)]

\* The loop body without the second check, "if len(agents) < 2: continue".
SessionFormationUnchecked(session_id, unsorted, hash_order) ==
    IF Len(unsorted) < 2 THEN <<>>
    ELSE
    LET session_invocations == SortByTimestamp(unsorted)
        agents == ListOfSet({session_invocations[i].agent_name :
                                 i \in DOMAIN session_invocations}, hash_order)
    IN <<FormationOf(session_id, session_invocations, agents)>>

\* The body of the loop of detect_squad_formations for one session: the
\* formations it appends (none or one).
SessionFormation(session_id, unsorted, hash_order) ==
    IF Len(unsorted) < 2 THEN <<>>
    ELSE
    LET session_invocations == SortByTimestamp(unsorted)
        agents == ListOfSet({session_invocations[i].agent_name :
                                 i \in DOMAIN session_invocations}, hash_order)
    IN IF Len(agents) < 2 THEN <<>>
       ELSE <<FormationOf(session_id, session_invocations, agents)>>

\* AgentLogsAnalyzer.detect_squad_formations
detect_squad_formations(invs, hash_order) ==
    LET sessions == SessionOrder(invs, {})
    IN Concat([s \in DOMAIN sessions |->
           SessionFormation(sessions[s], SessionInvocations(invs, sessions[s]),
                            hash_order)])

\* ------------------------------------------------------------------------
\* Per-agent XP
\* ------------------------------------------------------------------------

\* AgentLogsAnalyzer._calculate_level_from_xp: the pairs are scanned from the
\* last one down.
RECURSIVE LevelScanDown(_, _)
LevelScanDown(xp, i) ==
    IF i = 0 THEN 1
    ELSE IF xp >= xp_levels[i].threshold THEN xp_levels[i].level
    ELSE LevelScanDown(xp, i - 1)

_calculate_level_from_xp(xp) == LevelScanDown(xp, Len(xp_levels))

\* AgentLogsAnalyzer._get_next_level_xp
_get_next_level_xp(current_level) ==
    LET above == {i \in DOMAIN xp_levels : xp_levels[i].level > current_level}
    IN IF above # {}
       THEN xp_levels[CHOOSE i \in above : \A j \in above : i <= j].threshold
       ELSE xp_levels[Len(xp_levels)].threshold

\* The category names and agent names that occur as substrings of a
\* lower-cased project path.
NamesInPath(project_lower) ==
    CASE project_lower = "/srv/python/api" -> {"python"}
      [] OTHER -> {}

\* AgentLogsAnalyzer._calculate_specialization_bonus
_calculate_specialization_bonus(agent_name, invs) ==
    LET listing == {c \in DOMAIN specialization_categories :
                       agent_name \in specialization_categories[c].agents}
    IN IF listing = {} THEN 0
       ELSE
       LET first == CHOOSE c \in listing : \A d \in listing : c <= d
           agent_specialization == specialization_categories[first].spec
           keywords == specialization_categories[first].agents
           specialization_projects ==
               {invs[i].project_path : i \in
                   {j \in DOMAIN invs :
                       LET project_lower == Lower(invs[j].project_path)
                       IN \/ agent_specialization \in NamesInPath(project_lower)
                          \/ keywords \cap NamesInPath(project_lower) # {}}}
       IN Cardinality(specialization_projects) * 20

\* AgentLogsAnalyzer._calculate_consistency_bonus
_calculate_consistency_bonus(invs) ==
    IF Len(invs) < 2 THEN 0
    ELSE LET usage_dates == {DateOf(invs[i].timestamp) : i \in DOMAIN invs}
         IN IF Cardinality(usage_dates) >= 7 THEN 100
            ELSE IF Cardinality(usage_dates) >= 3 THEN 50
            ELSE IF Cardinality(usage_dates) >= 2 THEN 25
            ELSE 0

\* total_xp with the last bonus left out of the sum.
TotalXpWithoutConsistency(base_xp, success_bonus, tool_mastery_bonus, complexity_bonus, collaboration_bonus, specialization_bonus, consistency_bonus) ==
    base_xp + success_bonus + tool_mastery_bonus + complexity_bonus
        + collaboration_bonus + specialization_bonus

\* total_xp as _calculate_individual_agent_xp adds it up.
TotalXp(base_xp, success_bonus, tool_mastery_bonus, complexity_bonus, collaboration_bonus, specialization_bonus, consistency_bonus) ==
    base_xp + success_bonus + tool_mastery_bonus + complexity_bonus
        + collaboration_bonus + specialization_bonus + consistency_bonus

\* AgentLogsAnalyzer._calculate_individual_agent_xp.  complexity_score is in
\* thousandths, so int(avg_complexity * 40 * len(invocations)) is the sum of
\* the scores times 40 over 1000, rounded down.
_calculate_individual_agent_xp(agent_name, invs) ==
    LET base_xp == Len(invs) * 20
        success_bonus == SuccessCount(invs) * 30
        unique_tools == UNION {invs[i].tools_used : i \in DOMAIN invs}
        tool_mastery_bonus == Cardinality(unique_tools) * 15
        complexity_bonus ==
            (SumSeq([i \in DOMAIN invs |-> invs[i].complexity_score]) * 40) \div 1000
        collaboration_count ==
            Cardinality({i \in DOMAIN invs : invs[i].collaboration_agents # <<>>})
        collaboration_bonus == collaboration_count * 25
        specialization_bonus == _calculate_specialization_bonus(agent_name, invs)
        consistency_bonus == _calculate_consistency_bonus(invs)
        total_xp == TotalXp(base_xp, success_bonus, tool_mastery_bonus,
                            complexity_bonus, collaboration_bonus,
                            specialization_bonus, consistency_bonus)
        level == _calculate_level_from_xp(total_xp)
    IN [agent_name |-> agent_name,
        base_xp |-> base_xp,
        success_bonus |-> success_bonus,
        tool_mastery_bonus |-> tool_mastery_bonus,
        complexity_bonus |-> complexity_bonus,
        collaboration_bonus |-> collaboration_bonus,
        specialization_bonus |-> specialization_bonus,
        consistency_bonus |-> consistency_bonus,
        total_xp |-> total_xp,
        level |-> level,
        next_level_xp |-> _get_next_level_xp(level)]

\* calculate_agent_xp starting from a dict that already holds a record for
\* the "unknown" agent.
CalculateAgentXpSeeded(invs) ==
    [agent_name \in {invs[i].agent_name : i \in DOMAIN invs} \cup {"unknown"} |->
        IF \E i \in DOMAIN invs : invs[i].agent_name = agent_name
        THEN _calculate_individual_agent_xp(
                 agent_name, SelectSeq(invs, LAMBDA inv : inv.agent_name = agent_name))
        ELSE [agent_name |-> agent_name, total_xp |-> 0, level |-> 1]]

\* AgentLogsAnalyzer.calculate_agent_xp: a dict keyed by agent name.
calculate_agent_xp(invs) ==
    [agent_name \in {invs[i].agent_name : i \in DOMAIN invs} |->
        _calculate_individual_agent_xp(
            agent_name, SelectSeq(invs, LAMBDA inv : inv.agent_name = agent_name))]

\* ------------------------------------------------------------------------
\* Level tables and level lookups
\* ------------------------------------------------------------------------

\* The sum of the increments of the levels lo .. hi, the increments given as
\* a function of the level (halving keeps the evaluation shallow).
RECURSIVE SumIncrements(_, _, _)
SumIncrements(increment, lo, hi) ==
    IF lo > hi THEN 0
    ELSE IF lo = hi THEN increment[lo]
    ELSE LET mid == (lo + hi) \div 2
         IN SumIncrements(increment, lo, mid) + SumIncrements(increment, mid + 1, hi)

\* The list the two threshold builders produce: 0 for level 1, and for every
\* level from 2 to last the running sum of the increments up to that level.
BuildThresholds(increment, last) ==
    [level \in 1 .. last |-> SumIncrements(increment, 2, level)]

\* XPSystemRedesign._calculate_realistic_thresholds: the increment of a level.
RealisticIncrement(level) ==
    IF level <= 10 THEN 200 + (level - 2) * 150
    ELSE IF level <= 30 THEN 800 + (level - 11) * 200
    ELSE IF level <= 70 THEN 2000 + (level - 31) * 300
    ELSE IF level <= 120 THEN 8000 + (level - 71) * 500
    ELSE IF level <= 200 THEN 15000 + (level - 121) * 1000
    ELSE 30000 + (level - 201) * 2000

\* XPSystemRedesign.level_thresholds (300 entries).
level_thresholds ==
    BuildThresholds([level \in 2 .. 300 |-> RealisticIncrement(level)], 300)

\* XPCalculationEngine._calculate_level_thresholds: the increment of a level.
BackendIncrement(level) ==
    IF level <= 10 THEN 100 + (level - 2) * 50
    ELSE IF level <= 20 THEN 100 * (level - 10) + 250
    ELSE IF level <= 30 THEN 200 * (level - 20) + 450
    ELSE IF level <= 40 THEN 500 * (level - 30) + 850
    ELSE IF level <= 50 THEN 1000 * (level - 40) + 1350
    ELSE IF level <= 70 THEN 2000 * (level - 50) + 2350
    ELSE IF level <= 120 THEN 5000 * (level - 70) + 4350
    ELSE IF level <= 200 THEN 10000 * (level - 120) + 9350
    ELSE 25000 * (level - 200) + 19350

\* XPCalculationEngine.LEVEL_THRESHOLDS (250 entries).
LEVEL_THRESHOLDS ==
    BuildThresholds([level \in 2 .. 250 |-> BackendIncrement(level)], 250)

\* "for level, threshold in enumerate(thresholds): if xp < threshold: return
\* level", else len(thresholds): the first index whose threshold is above xp.
\* enumerate counts from 0, sequences from 1.
EnumerateScan(thresholds, xp) ==
    LET above == {i \in DOMAIN thresholds : xp < thresholds[i]}
    IN IF above = {} THEN Len(thresholds)
       ELSE (CHOOSE i \in above : \A j \in above : i <= j) - 1

\* get_level_from_xp ending in the analyzer's fall-through "return 1" instead
\* of "return len(self.level_thresholds)".
GetLevelFallThroughOne(xp) ==
    IF \A i \in DOMAIN level_thresholds : xp >= level_thresholds[i] THEN 1
    ELSE EnumerateScan(level_thresholds, xp)

\* XPSystemRedesign.get_level_from_xp
get_level_from_xp(xp) == EnumerateScan(level_thresholds, xp)

\* XPCalculationEngine.calculate_level: as above with "return max(1, level)"
\* inside the loop.
calculate_level(total_xp) ==
    LET level == EnumerateScan(LEVEL_THRESHOLDS, total_xp)
    IN IF level < Len(LEVEL_THRESHOLDS) THEN Max(1, level) ELSE level

\* ------------------------------------------------------------------------
\* XPSystemRedesign.calculate_session_xp
\* ------------------------------------------------------------------------

RatMul(p, q) == Rat(p.num * q.num, p.den * q.den)

\* self.base_rates.get(f"{complexity}_task", 50)
TaskRate(complexity) ==
    CASE complexity = "simple" -> 50
      [] complexity = "medium" -> 200
      [] complexity = "complex" -> 500
      [] OTHER -> 50

\* The token XP block (lines 116-130).
TokenXp(tokens) ==
    LET input_xp == tokens.input \div 100
        output_xp == tokens.output \div 50
        cache_xp == tokens.cache \div 200
    IN [input_xp |-> input_xp, output_xp |-> output_xp, cache_xp |-> cache_xp,
        total |-> input_xp + output_xp + cache_xp]

\* The tool XP block (lines 143-156); int(x * 1.2) and int(x * 1.5).
ToolXp(tools, efficient_tools) ==
    LET base == Len(tools) * 10
        combo == IF Len(tools) > 3 THEN (base * 12) \div 10 ELSE base
    IN IF efficient_tools THEN (combo * 15) \div 10 ELSE combo

\* The performance multiplier with the bonuses added up instead of multiplied:
\* 1 + 1.0 + 0.5 + 0.3.
PerformanceMultiplierAdditive(data) ==
    RatAdd(RatAdd(IF data.fast_completion THEN Rat(2, 1) ELSE Rat(1, 1),
                  IF data.zero_errors THEN Rat(1, 2) ELSE Rat(0, 1)),
           IF data.first_try_success THEN Rat(3, 10) ELSE Rat(0, 1))

\* The performance multiplier (lines 159-172), an exact rational.
PerformanceMultiplier(data) ==
    LET speed == IF data.fast_completion THEN Rat(2, 1) ELSE Rat(1, 1)
        clean == IF data.zero_errors THEN RatMul(speed, Rat(3, 2)) ELSE speed
    IN IF data.first_try_success THEN RatMul(clean, Rat(13, 10)) ELSE clean

\* The engagement bonuses (lines 185-193).
EngagementXp(data) ==
    (IF data.daily_login THEN 100 ELSE 0)
        + (IF data.streak_days >= 7 THEN 1000 ELSE 0)
        + (IF data.streak_days >= 30 THEN 5000 ELSE 0)

\* total_xp after the multiplier and the engagement bonuses (lines 175-196).
FinalSessionXp(subtotal, multiplier, engagement_xp) ==
    (IF RatLeq(multiplier, Rat(1, 1)) THEN subtotal
     ELSE (subtotal * multiplier.num) \div multiplier.den)
        + engagement_xp

\* XPSystemRedesign.calculate_session_xp: total_xp and the breakdown; a key
\* the code leaves out of the breakdown has its has_ flag FALSE.
calculate_session_xp(data) ==
    LET token_xp == IF data.has_tokens THEN TokenXp(data.tokens) ELSE TokenXp(
                        [input |-> 0, output |-> 0, cache |-> 0])
        task_xp == IF data.has_tasks
                   THEN SumSeq([i \in DOMAIN data.tasks |-> TaskRate(data.tasks[i])])
                   ELSE 0
        tool_xp == IF data.has_tools_used
                   THEN ToolXp(data.tools_used, data.efficient_tools) ELSE 0
        subtotal == token_xp.total + task_xp + tool_xp
        multiplier == PerformanceMultiplier(data)
        boosted == ~RatLeq(multiplier, Rat(1, 1))
        engagement_xp == EngagementXp(data)
    IN [done |-> TRUE,
        total_xp |-> FinalSessionXp(subtotal, multiplier, engagement_xp),
        has_tokens |-> data.has_tokens, tokens |-> token_xp,
        has_tasks |-> data.has_tasks, tasks |-> task_xp,
        has_tools |-> data.has_tools_used, tools |-> tool_xp,
        has_performance_bonus |-> boosted,
        multiplier |-> IF boosted THEN multiplier ELSE Rat(1, 1),
        bonus_xp |-> IF boosted
                     THEN (subtotal * (multiplier.num - multiplier.den))
                              \div multiplier.den
                     ELSE 0,
        has_engagement |-> engagement_xp > 0, engagement |-> engagement_xp]

\* ------------------------------------------------------------------------
\* The analysis run (CLI command "analyze": parse, detect squads, XP)
\* ------------------------------------------------------------------------

NoUsage == [input_tokens |-> 0, output_tokens |-> 0, cache_read_input_tokens |-> 0]

ObjectLine(type, timestamp, sessionId, content, usage, toolUseResult) ==
    [kind |-> "object",
     entry |-> [json |-> "object",
                type |-> type, timestamp |-> timestamp, sessionId |-> sessionId,
                message |-> [json |-> "object", content |-> content,
                             usage_json |-> "object", usage |-> usage],
                toolUseResult |-> toolUseResult]]

\* A line json.loads rejects; its entry field is never read.
MalformedLine ==
    [kind |-> "malformed",
     entry |-> [json |-> "none",
                type |-> "", timestamp |-> "", sessionId |-> "",
                message |-> [json |-> "object", content |-> <<>>,
                             usage_json |-> "object", usage |-> NoUsage],
                toolUseResult |-> Absent]]

UserBackend ==
    ObjectLine("user", "2025-01-01T10:00:00Z", "s1",
               <<"/backend-architect", "design", "the", "api">>, NoUsage, Absent)
UserSecurity ==
    ObjectLine("user", "2025-01-01T10:10:00Z", "s1",
               <<"using", "security-auditor">>, NoUsage, Absent)
ToolError ==
    ObjectLine("user", "2025-01-01T10:10:00Z", "s1", <<"ok">>, NoUsage, "Error")
AssistantSquad ==
    ObjectLine("assistant", "2025-01-01T12:00:00Z", "s1",
               <<"team", "data-engineer", "/backend-architect", "\"name\":\"Bash\"">>,
               [input_tokens |-> 1000, output_tokens |-> 500,
                cache_read_input_tokens |-> 100], Absent)
UserRepeat ==
    ObjectLine("user", "2025-01-02T09:00:00Z", "s2",
               <<"/backend-architect", "using", "backend-architect", "/tmp">>,
               NoUsage, Absent)
AssistantFailed ==
    ObjectLine("assistant", "2025-01-01T12:00:00Z", "s2", <<"build", "Failed">>,
               NoUsage, Absent)
SummarySecurity ==
    ObjectLine("summary", "2025-01-01T10:00:00Z", "s1", <<"/security-auditor">>,
               NoUsage, Absent)
UserNoTimestamp ==
    ObjectLine("user", "", "s1", <<"/security-auditor">>, NoUsage, Absent)
UserBadTimestamp ==
    ObjectLine("user", "yesterday", "s2", <<"using", "data-engineer">>, NoUsage, Absent)

\* The lines a modelled log file is made of.
LinePool == {UserBackend, UserSecurity, ToolError, AssistantSquad, UserRepeat,
             AssistantFailed, SummarySecurity, UserNoTimestamp, UserBadTimestamp,
             MalformedLine}

LogDirs == {"-srv-python-api-", "-home-dev-web"}

\* The agent names the vocabulary can yield, and the orders a process' string
\* hashing can put them in.
DetectableAgents == {"backend-architect", "security-auditor", "data-engineer"}

HashOrders ==
    {h \in [1 .. Cardinality(DetectableAgents) -> DetectableAgents] :
        \A i, j \in DOMAIN h : i # j => h[i] # h[j]}

MaxLines == 3

NoXp == [a \in {} |-> 0]

NoLevels == [done |-> FALSE, analyzer |-> 0, tracker |-> 0, backend |-> 0]

NoTokens == [input |-> 0, output |-> 0, cache |-> 0]

EmptySession ==
    [has_tokens |-> FALSE, tokens |-> NoTokens, has_tasks |-> FALSE, tasks |-> <<>>,
     has_tools_used |-> FALSE, tools_used |-> <<>>, efficient_tools |-> FALSE,
     fast_completion |-> FALSE, zero_errors |-> FALSE, first_try_success |-> FALSE,
     daily_login |-> FALSE, streak_days |-> 0]

NoSessionXp == [calculate_session_xp(EmptySession) EXCEPT !.done = FALSE]

\* The parts of the state a specification does not exercise stay as built.
AnalyzerIdle ==
    /\ log_dir = "" /\ lines = <<>> /\ pc = "idle"
    /\ invocations = <<>> /\ formations = <<>> /\ agent_xp = NoXp
LevelIdle == xp_in = 0 /\ levels = NoLevels
SessionIdle == session_data = EmptySession /\ session_xp = NoSessionXp
TreeIdle == tree = [exists |-> FALSE, files |-> <<>>] /\ runs = <<>>
NoFile == [exists |-> FALSE, data |-> <<>>]
CoordinatorIdle ==
    /\ now = 0 /\ plans_file = NoFile /\ coordinators = <<>>
    /\ squad_tracker = "unbound" /\ stats_file = NoFile
RegistryIdle == registry = <<>> /\ agent_files = <<>>
PeripheralIdle == RegistryIdle /\ tracker = <<>> /\ manager = <<>>

Init ==
    /\ log_dir \in LogDirs
    /\ lines = <<>>
    /\ pc = "logs"
    /\ invocations = <<>>
    /\ formations = <<>>
    /\ agent_xp = NoXp
    /\ LevelIdle
    /\ SessionIdle
    /\ TreeIdle
    /\ CoordinatorIdle
    /\ PeripheralIdle

\* The log file grows by one line (before the run starts).
AppendLine(pool, max) ==
    /\ pc = "logs"
    /\ Len(lines) < max
    /\ \E l \in pool : lines' = Append(lines, l)
    /\ UNCHANGED <<log_dir, pc, invocations, formations, agent_xp>>
    /\ UNCHANGED <<level_vars, session_vars, tree_vars, coordinator_vars, peripheral_vars>>

ParseConversationLogs ==
    /\ pc = "logs"
    /\ IF ParseRaises(<<[dir |-> log_dir, lines |-> lines]>>)
       THEN pc' = "raised" /\ invocations' = invocations
       ELSE /\ \E hash_order \in HashOrders :
                 invocations' = parse_conversation_logs(
                                    <<[dir |-> log_dir, lines |-> lines]>>, hash_order)
            /\ pc' = "parsed"
    /\ UNCHANGED <<log_dir, lines, formations, agent_xp>>
    /\ UNCHANGED <<level_vars, session_vars, tree_vars, coordinator_vars, peripheral_vars>>

DetectSquadFormations ==
    /\ pc = "parsed"
    /\ \E hash_order \in HashOrders :
         formations' = detect_squad_formations(invocations, hash_order)
    /\ pc' = "squads"
    /\ UNCHANGED <<log_dir, lines, invocations, agent_xp>>
    /\ UNCHANGED <<level_vars, session_vars, tree_vars, coordinator_vars, peripheral_vars>>

CalculateAgentXp ==
    /\ pc = "squads"
    /\ agent_xp' = calculate_agent_xp(invocations)
    /\ pc' = "done"
    /\ UNCHANGED <<log_dir, lines, invocations, formations>>
    /\ UNCHANGED <<level_vars, session_vars, tree_vars, coordinator_vars, peripheral_vars>>

GrowLog == AppendLine(LinePool, MaxLines)

Next ==
    \/ GrowLog
    \/ ParseConversationLogs
    \/ DetectSquadFormations
    \/ CalculateAgentXp

Spec == Init /\ [][Next]_vars

\* ------------------------------------------------------------------------
\* Properties of the analysis run
\* ------------------------------------------------------------------------

Parsed == pc \in {"parsed", "squads", "done"}
SquadsDetected == pc \in {"squads", "done"}

\* The entries of the log file and the project path of the run.
Entries == _parse_jsonl_file(lines)
ProjectPath == _extract_project_path(log_dir)

\* A LogEntry: type user or assistant, with a parseable timestamp.
IsLogEntry(entry) ==
    /\ entry.type \in {"user", "assistant"}
    /\ fromisoformat(entry.timestamp).ok

AgentNamesOfSession(sid) ==
    {invocations[i].agent_name :
        i \in {j \in DOMAIN invocations : invocations[j].session_id = sid}}

\* C1: every AgentXPCalculation's total_xp is exactly the sum of its seven
\* itemized fields: base_xp, success_bonus, tool_mastery_bonus,
\* complexity_bonus, collaboration_bonus, specialization_bonus and
\* consistency_bonus.
C1_TotalXpIsSumOfFields ==
    \A a \in DOMAIN agent_xp :
        agent_xp[a].total_xp =
            agent_xp[a].base_xp + agent_xp[a].success_bonus
                + agent_xp[a].tool_mastery_bonus + agent_xp[a].complexity_bonus
                + agent_xp[a].collaboration_bonus + agent_xp[a].specialization_bonus
                + agent_xp[a].consistency_bonus

C1_Witness ==
    /\ pc = "done"
    /\ \E a \in DOMAIN agent_xp :
          /\ agent_xp[a].success_bonus > 0
          /\ agent_xp[a].tool_mastery_bonus > 0
          /\ agent_xp[a].complexity_bonus > 0
          /\ agent_xp[a].collaboration_bonus > 0
          /\ agent_xp[a].consistency_bonus > 0
    /\ \E a \in DOMAIN agent_xp : agent_xp[a].specialization_bonus > 0

\* Scenario A: entry1 mentions backend-architect, entry2 (same session, ten
\* minutes later) mentions security-auditor, the next entry carries an error
\* marker.
ScenarioA == lines = <<UserBackend, UserSecurity, ToolError>>

ScenarioACollaboration ==
    /\ Len(invocations) = 2
    /\ invocations[1].agent_name = "backend-architect"
    /\ invocations[1].collaboration_agents = <<"security-auditor">>
    /\ invocations[2].agent_name = "security-auditor"
    /\ invocations[2].collaboration_agents = <<"backend-architect">>
    /\ invocations[2].timestamp - invocations[1].timestamp = 600

C3_SynergyInUnitInterval ==
    \A k \in DOMAIN formations :
        /\ RatLeq(Rat(0, 1), formations[k].synergy_score)
        /\ RatLeq(formations[k].synergy_score, Rat(1, 1))

C5_NoFormationBelowTwoAgents ==
    SquadsDetected =>
        \A k \in DOMAIN formations :
            Cardinality(AgentNamesOfSession(formations[k].session_id)) >= 2

C5_Witness ==
    /\ pc = "squads"
    /\ \E i \in DOMAIN invocations :
          /\ Len(SessionInvocations(invocations, invocations[i].session_id)) >= 2
          /\ Cardinality(AgentNamesOfSession(invocations[i].session_id)) = 1
          /\ \A k \in DOMAIN formations :
                formations[k].session_id # invocations[i].session_id

\* The invocations of the run that carry the entry's timestamp, session and
\* project and the given agent name.
RecordsOf(entry, name) ==
    {k \in DOMAIN invocations :
        /\ invocations[k].agent_name = name
        /\ invocations[k].timestamp = fromisoformat(entry.timestamp).secs
        /\ invocations[k].session_id = entry.sessionId
        /\ invocations[k].project_path = ProjectPath}

\* C7: a log entry whose message mentions two distinct valid agent names
\* yields exactly two invocations, with the entry's timestamp, session and
\* project and one agent name each; in general every log entry yields one
\* record per distinct detected name, never more, never fewer.
C7_FanOutPerDetectedName ==
    Parsed =>
        /\ Len(invocations) =
               SumSeq([i \in DOMAIN Entries |->
                   IF IsLogEntry(Entries[i])
                   THEN Cardinality(AgentsFound(Entries[i].message.content))
                   ELSE 0])
        /\ \A i \in DOMAIN Entries :
               IsLogEntry(Entries[i]) =>
                   \A name \in AgentsFound(Entries[i].message.content) :
                       RecordsOf(Entries[i], name) # {}
        /\ (Len(Entries) = 1 /\ IsLogEntry(Entries[1])
                /\ Cardinality(AgentsFound(Entries[1].message.content)) = 2) =>
               /\ Len(invocations) = 2
               /\ invocations[1].agent_name # invocations[2].agent_name
               /\ invocations[1].timestamp = invocations[2].timestamp
               /\ invocations[1].session_id = invocations[2].session_id
               /\ invocations[1].project_path = invocations[2].project_path

C7_Witness ==
    /\ pc = "parsed"
    /\ Len(Entries) = 1
    /\ Cardinality(AgentsFound(Entries[1].message.content)) = 2
    /\ Len(invocations) = 2

\* ------------------------------------------------------------------------
\* Success lookahead on longer logs
\* ------------------------------------------------------------------------

UserPlain ==
    ObjectLine("user", "2025-01-01T10:10:00Z", "s1", <<"ok">>, NoUsage, Absent)
UserFixError ==
    ObjectLine("user", "2025-01-01T10:00:00Z", "s1",
               <<"using", "security-auditor", "Error:">>, NoUsage, Absent)

LookaheadPool == {UserBackend, UserPlain, ToolError, AssistantFailed, UserFixError}

MaxLookaheadLines == 6

InitLookahead ==
    /\ log_dir = "-home-dev-web"
    /\ lines = <<>>
    /\ pc = "logs"
    /\ invocations = <<>>
    /\ formations = <<>>
    /\ agent_xp = NoXp
    /\ LevelIdle
    /\ SessionIdle
    /\ TreeIdle
    /\ CoordinatorIdle
    /\ PeripheralIdle

GrowLookaheadLog == AppendLine(LookaheadPool, MaxLookaheadLines)

NextLookahead ==
    \/ GrowLookaheadLog
    \/ ParseConversationLogs
    \/ DetectSquadFormations
    \/ CalculateAgentXp

SpecLookahead == InitLookahead /\ [][NextLookahead]_vars

\* An error indicator: the tool-error marker, or "error" / "failed" in the
\* message text.
CarriesError(entry) ==
    \/ entry.toolUseResult = "Error"
    \/ \E w \in Range(LowerText(entry.message.content)) : HasErrorText(w)

\* Every line of the lookahead pool that mentions an agent mentions exactly
\* one, so the k-th invocation comes from the k-th such line.
InvokingLines == {i \in DOMAIN lines : AgentsFound(lines[i].entry.message.content) # {}}
InvokingLine(k) ==
    CHOOSE i \in InvokingLines : Cardinality({j \in InvokingLines : j <= i}) = k

\* C10: an invocation's success flag is false exactly when one of the next
\* up-to-5 log entries after the invoking entry carries a tool-error marker or
\* has "error" / "failed" in its message text, and true when none does
\* (also when fewer than 5, or no, entries follow).
C10_SuccessFromNextFiveEntries ==
    (Parsed /\ Len(invocations) = Cardinality(InvokingLines)) =>
        \A k \in DOMAIN invocations :
            invocations[k].success =
                ~\E j \in (InvokingLine(k) + 1) .. Min(InvokingLine(k) + 5, Len(lines)) :
                    CarriesError(lines[j].entry)

\* ------------------------------------------------------------------------
\* Level lookups over XP values around every threshold of the three tables
\* ------------------------------------------------------------------------

Slack == 1

AnalyzerThresholds == [i \in DOMAIN xp_levels |-> xp_levels[i].threshold]

XpSamples ==
    {t + d : t \in Range(AnalyzerThresholds) \cup Range(level_thresholds)
                     \cup Range(LEVEL_THRESHOLDS),
             d \in (0 - Slack) .. Slack}

InitLevel ==
    /\ AnalyzerIdle
    /\ xp_in \in XpSamples
    /\ levels = NoLevels
    /\ SessionIdle
    /\ TreeIdle
    /\ CoordinatorIdle
    /\ PeripheralIdle

\* The three level lookups of the source on the same XP value.
LookupLevels ==
    /\ ~levels.done
    /\ levels' = [done |-> TRUE,
                  analyzer |-> _calculate_level_from_xp(xp_in),
                  tracker |-> get_level_from_xp(xp_in),
                  backend |-> calculate_level(xp_in)]
    /\ UNCHANGED <<xp_in, analyzer_vars, session_vars, tree_vars, coordinator_vars, peripheral_vars>>

NextLevel == LookupLevels

SpecLevel == InitLevel /\ [][NextLevel]_vars

\* ------------------------------------------------------------------------
\* Per-session XP over a family of session_data dicts
\* ------------------------------------------------------------------------

MaxTools == 4

TokenChoices == {NoTokens, [input |-> 1050, output |-> 120, cache |-> 399]}
TaskChoices == {<<>>, <<"simple">>, <<"medium", "complex">>, <<"mission">>}
StreakChoices == {0, 6, 7, 29, 30}

SessionInputs ==
    {[has_tokens |-> ht, tokens |-> tk, has_tasks |-> hk, tasks |-> ts,
      has_tools_used |-> hu, tools_used |-> [i \in 1 .. n |-> "Bash"],
      efficient_tools |-> ef, fast_completion |-> fc, zero_errors |-> ze,
      first_try_success |-> ft, daily_login |-> dl, streak_days |-> sd] :
        ht \in BOOLEAN, tk \in TokenChoices, hk \in BOOLEAN, ts \in TaskChoices,
        hu \in BOOLEAN, n \in 0 .. MaxTools, ef \in BOOLEAN, fc \in BOOLEAN,
        ze \in BOOLEAN, ft \in BOOLEAN, dl \in BOOLEAN, sd \in StreakChoices}

InitSession ==
    /\ AnalyzerIdle
    /\ LevelIdle
    /\ session_data \in {d \in SessionInputs :
            /\ d.has_tokens \/ d.tokens = NoTokens
            /\ d.has_tasks \/ d.tasks = <<>>
            /\ d.has_tools_used \/ (d.tools_used = <<>> /\ ~d.efficient_tools)}
    /\ session_xp = NoSessionXp
    /\ TreeIdle
    /\ CoordinatorIdle
    /\ PeripheralIdle

CalculateSessionXp ==
    /\ ~session_xp.done
    /\ session_xp' = calculate_session_xp(session_data)
    /\ UNCHANGED <<session_data, analyzer_vars, level_vars, tree_vars, coordinator_vars, peripheral_vars>>

NextSession == CalculateSessionXp

SpecSession == InitSession /\ [][NextSession]_vars

\* ------------------------------------------------------------------------
\* Properties of the level lookups
\* ------------------------------------------------------------------------

\* The three lookups tabulated over the sampled XP values.
LevelsOf(x) ==
    [analyzer |-> _calculate_level_from_xp(x),
     tracker |-> get_level_from_xp(x),
     backend |-> calculate_level(x)]

LevelsAt == [x \in XpSamples |-> LevelsOf(x)]

\* C6: level is monotone in XP for each of the three level lookups (the
\* 10-level analyzer table, the 300-level session-tracker table, the
\* 250-level backend table): x1 < x2 implies level(x1) <= level(x2).
C6_LevelMonotoneInXp ==
    levels.done =>
        \A x2 \in XpSamples :
            xp_in < x2 =>
                /\ levels.analyzer <= LevelsAt[x2].analyzer
                /\ levels.tracker <= LevelsAt[x2].tracker
                /\ levels.backend <= LevelsAt[x2].backend

C6_Witness ==
    /\ levels.done
    /\ levels.analyzer = 10
    /\ levels.tracker = 137
    /\ levels.backend > 1
    /\ \E x2 \in XpSamples : xp_in < x2 /\ levels.tracker < LevelsAt[x2].tracker

\* The level the lookup rule gives: the 0-based index of the first threshold
\* above the XP value, at least 1 and at most the table length (the table
\* length when no threshold is above).
LevelByRule(thresholds, x) ==
    LET above == {i \in DOMAIN thresholds : thresholds[i] > x}
    IN IF above = {} THEN Len(thresholds)
       ELSE Max(1, Min(Len(thresholds),
                       (CHOOSE i \in above : \A j \in above : i <= j) - 1))

\* C8: for every XP value, zero, negative and beyond the last threshold
\* included, each level lookup returns the first table index whose threshold
\* exceeds the XP value, as a 1-based level never below 1 and never above the
\* table length.
C8_LevelIsFirstThresholdAbove ==
    levels.done =>
        /\ levels.analyzer = LevelByRule(AnalyzerThresholds, xp_in)
        /\ levels.tracker = LevelByRule(level_thresholds, xp_in)
        /\ levels.backend = LevelByRule(LEVEL_THRESHOLDS, xp_in)
        /\ levels.analyzer \in 1 .. Len(AnalyzerThresholds)
        /\ levels.tracker \in 1 .. Len(level_thresholds)
        /\ levels.backend \in 1 .. Len(LEVEL_THRESHOLDS)

\* ------------------------------------------------------------------------
\* Properties of the per-session XP
\* ------------------------------------------------------------------------

\* The product of 2.0, 1.5 and 1.3 over the flags that are set, in
\* thousandths.
MultiplierPerMille(data) ==
    CASE  data.fast_completion /\  data.zero_errors /\  data.first_try_success -> 3900
      []  data.fast_completion /\  data.zero_errors /\ ~data.first_try_success -> 3000
      []  data.fast_completion /\ ~data.zero_errors /\  data.first_try_success -> 2600
      []  data.fast_completion /\ ~data.zero_errors /\ ~data.first_try_success -> 2000
      [] ~data.fast_completion /\  data.zero_errors /\  data.first_try_success -> 1950
      [] ~data.fast_completion /\  data.zero_errors /\ ~data.first_try_success -> 1500
      [] ~data.fast_completion /\ ~data.zero_errors /\  data.first_try_success -> 1300
      [] OTHER -> 1000

\* The subtotal the breakdown reports: tokens + tasks + tools.
ReportedSubtotal == session_xp.tokens.total + session_xp.tasks + session_xp.tools

ValueLine ==
    [kind |-> "value",
     entry |-> [MalformedLine.entry EXCEPT !.json = "value"]]

\* An entry whose "message" is a string, not an object.
UserStringMessage ==
    [UserSecurity EXCEPT !.entry.message.json = "value"]

\* An assistant entry mentioning an agent whose "usage" is null.
AssistantNullUsage ==
    [AssistantSquad EXCEPT !.entry.message.usage_json = "value"]

\* An entry without a "timestamp" key whose text holds "failed".
UntimedFailed ==
    ObjectLine("user", Absent, "s1", <<"build", "failed">>, NoUsage, Absent)

ShapePool == {UserBackend, UserStringMessage, ValueLine, AssistantNullUsage,
              MalformedLine, UntimedFailed, UserBadTimestamp}

MaxShapeLines == 3

GrowShapeLog == AppendLine(ShapePool, MaxShapeLines)

NextShapes ==
    \/ GrowShapeLog
    \/ ParseConversationLogs
    \/ DetectSquadFormations
    \/ CalculateAgentXp

SpecShapes == InitLookahead /\ [][NextShapes]_vars

\* The lines of the log whose processing raises nothing: every line but those
\* holding a non-object value or an assistant entry with a non-object usage.
WellShapedLines ==
    SelectSeq(lines, LAMBDA l : l.kind # "value" /\ l.entry.message.usage_json = "object")

\* C11: no exception of the processing of an entry or a file leaves
\* parse_conversation_logs: for any file contents, valid JSON lines of
\* unexpected shape included, the parse completes and returns the invocations
\* of the remaining entries.
C11_NoExceptionPastFileBoundary ==
    /\ pc # "raised"
    /\ Parsed =>
           \E hash_order \in HashOrders :
               invocations = parse_conversation_logs(
                                 <<[dir |-> log_dir, lines |-> WellShapedLines]>>,
                                 hash_order)

\* A line json.loads rejects, and an entry whose timestamp is missing or does
\* not parse.
IsMalformed(l) == l.kind = "malformed"
HasBadTimestamp(l) ==
    /\ l.kind = "object"
    /\ \/ l.entry.timestamp = Absent
       \/ l.entry.timestamp = ""
       \/ ~fromisoformat(l.entry.timestamp).ok

LinesWithoutMalformed == SelectSeq(lines, LAMBDA l : ~IsMalformed(l))
LinesWithoutBad == SelectSeq(lines, LAMBDA l : ~IsMalformed(l) /\ ~HasBadTimestamp(l))

\* The invocations of the log file when its lines are file_lines.
InvocationsOf(file_lines, hash_order) ==
    parse_conversation_logs(<<[dir |-> log_dir, lines |-> file_lines]>>, hash_order)

SuccessMasked(invs) == [i \in DOMAIN invs |-> [invs[i] EXCEPT !.success = TRUE]]

FileBackend ==
    [dir |-> "-srv-python-api-", recent |-> TRUE, lines |-> <<UserBackend>>]
FileSecurity ==
    [dir |-> "-home-dev-web", recent |-> TRUE, lines |-> <<UserSecurity, ToolError>>]
FileInterleaved ==
    [dir |-> "-home-dev-web", recent |-> TRUE,
     lines |-> <<UserBackend, UserRepeat, UserSecurity>>]
FileStale ==
    [dir |-> "-srv-python-api-", recent |-> FALSE, lines |-> <<UserSecurity>>]
FileBlank ==
    [dir |-> "-home-dev-web", recent |-> TRUE, lines |-> <<>>]

FilePool == {FileBackend, FileSecurity, FileInterleaved, FileStale, FileBlank}

MaxFiles == 2

Runs == {1, 2}

\* The order of the directory names under sorted().
DirRank(dir) == IF dir = "-home-dev-web" THEN 1 ELSE 2

\* sorted(log_files): paths compare by directory, then by file name; the
\* file at position k of the tree is named after k.
RECURSIVE InsertByPath(_, _, _)
InsertByPath(files, sorted, k) ==
    IF sorted = <<>> THEN <<k>>
    ELSE IF \/ DirRank(files[k].dir) < DirRank(files[Head(sorted)].dir)
            \/ (DirRank(files[k].dir) = DirRank(files[Head(sorted)].dir) /\ k < Head(sorted))
         THEN <<k>> \o sorted
         ELSE <<Head(sorted)>> \o InsertByPath(files, Tail(sorted), k)

RECURSIVE SortByPath(_, _)
SortByPath(files, ks) ==
    IF ks = <<>> THEN <<>>
    ELSE InsertByPath(files, SortByPath(files, Tail(ks)), Head(ks))

\* AgentLogsAnalyzer._get_log_files: no file when the directory does not
\* exist, else the recent *.jsonl files in sorted path order (as positions
\* in the tree).
_get_log_files(t) ==
    IF ~t.exists THEN <<>>
    ELSE SortByPath(t.files,
                    SelectSeq([k \in DOMAIN t.files |-> k],
                              LAMBDA k : t.files[k].recent))

\* The files at the given positions, as parse_conversation_logs reads them.
LogFilesAt(t, paths) ==
    [k \in DOMAIN paths |-> [dir |-> t.files[paths[k]].dir,
                             lines |-> t.files[paths[k]].lines]]

\* A file read by _parse_jsonl_file and left as it was.
FileConsumedByParse(file) == [file EXCEPT !.lines = <<>>]

\* open(log_file, 'r', encoding='utf-8'): the file after _parse_jsonl_file
\* has iterated over it and closed it.
FileAfterParse(file) == file

NewRun ==
    [pc |-> "start", files |-> <<>>, next |-> 1, raw |-> <<>>,
     invocations |-> <<>>, formations |-> <<>>, agent_xp |-> NoXp]

InitTree ==
    /\ AnalyzerIdle
    /\ LevelIdle
    /\ SessionIdle
    /\ CoordinatorIdle
    /\ PeripheralIdle
    /\ tree \in {[exists |-> e, files |-> <<>>] : e \in BOOLEAN}
    /\ runs = [r \in Runs |-> NewRun]

\* A log file appears in the tree (before any run starts).
AddLogFile ==
    /\ tree.exists
    /\ \A r \in Runs : runs[r].pc = "start"
    /\ Len(tree.files) < MaxFiles
    /\ \E file \in FilePool : tree' = [tree EXCEPT !.files = Append(@, file)]
    /\ UNCHANGED <<runs, analyzer_vars, level_vars, session_vars, coordinator_vars, peripheral_vars>>

\* parse_conversation_logs, lines 191-194: the files of the run.
GetLogFiles(r) ==
    /\ runs[r].pc = "start"
    /\ runs' = [runs EXCEPT ![r].pc = "reading", ![r].files = _get_log_files(tree)]
    /\ UNCHANGED <<tree, analyzer_vars, level_vars, session_vars, coordinator_vars, peripheral_vars>>

\* parse_conversation_logs, lines 196-207: one pass of the loop over the
\* files.
ParseLogFile(r) ==
    /\ runs[r].pc = "reading"
    /\ runs[r].next <= Len(runs[r].files)
    /\ UNCHANGED <<analyzer_vars, level_vars, session_vars, coordinator_vars, peripheral_vars>>
    /\ LET path == runs[r].files[runs[r].next]
           file == tree.files[path]
           entries == _parse_jsonl_file(file.lines)
       IN /\ tree' = [tree EXCEPT !.files[path] = FileAfterParse(file)]
          /\ IF entries = <<>>
             THEN runs' = [runs EXCEPT ![r].next = @ + 1]
             ELSE IF ExtractionRaises(entries)
             THEN runs' = [runs EXCEPT ![r].pc = "raised"]
             ELSE \E hash_order \in HashOrders :
                      runs' = [runs EXCEPT
                          ![r].next = @ + 1,
                          ![r].raw = @ \o _extract_agent_invocations_from_entries(
                                             entries, _extract_project_path(file.dir),
                                             hash_order)]

\* parse_conversation_logs, lines 209-213: the post-processing pass.
LinkCollaboration(r) ==
    /\ runs[r].pc = "reading"
    /\ runs[r].next > Len(runs[r].files)
    /\ runs' = [runs EXCEPT ![r].pc = "parsed",
                            ![r].invocations = _add_collaboration_context(runs[r].raw)]
    /\ UNCHANGED <<tree, analyzer_vars, level_vars, session_vars, coordinator_vars, peripheral_vars>>

RunDetectSquadFormations(r) ==
    /\ runs[r].pc = "parsed"
    /\ \E hash_order \in HashOrders :
         runs' = [runs EXCEPT
             ![r].pc = "squads",
             ![r].formations = detect_squad_formations(runs[r].invocations, hash_order)]
    /\ UNCHANGED <<tree, analyzer_vars, level_vars, session_vars, coordinator_vars, peripheral_vars>>

RunCalculateAgentXp(r) ==
    /\ runs[r].pc = "squads"
    /\ runs' = [runs EXCEPT ![r].pc = "done",
                            ![r].agent_xp = calculate_agent_xp(runs[r].invocations)]
    /\ UNCHANGED <<tree, analyzer_vars, level_vars, session_vars, coordinator_vars, peripheral_vars>>

NextTree ==
    \/ AddLogFile
    \/ \E r \in Runs : GetLogFiles(r)
    \/ \E r \in Runs : ParseLogFile(r)
    \/ \E r \in Runs : LinkCollaboration(r)
    \/ \E r \in Runs : RunDetectSquadFormations(r)
    \/ \E r \in Runs : RunCalculateAgentXp(r)

SpecTree == InitTree /\ [][NextTree]_vars

\* ------------------------------------------------------------------------
\* Properties of the runs over a log tree
\* ------------------------------------------------------------------------

\* C13: an empty or absent log directory yields zero invocations, zero
\* formations and zero XP records, and no stage of the run raises.
C13_EmptyTreeYieldsNothing ==
    (~tree.exists \/ tree.files = <<>>) =>
        \A r \in DOMAIN runs :
            /\ runs[r].pc # "raised"
            /\ runs[r].invocations = <<>>
            /\ runs[r].formations = <<>>
            /\ DOMAIN runs[r].agent_xp = {}

C13_Witness ==
    /\ ~tree.exists
    /\ runs[1].pc = "done"
    /\ runs[2].pc = "done"

\* The ascending (alphabetical) order of the agent names the logs can yield.
AgentRank(name) ==
    CASE name = "backend-architect" -> 1
      [] name = "data-engineer" -> 2
      [] name = "security-auditor" -> 3
      [] OTHER -> 4

\* C14: the agents field of every SquadFormation is the sorted list of the
\* unique agent names of its session: no duplicates, ascending order.
C14_FormationAgentsSorted ==
    SquadsDetected =>
        \A k \in DOMAIN formations :
            LET agents == formations[k].agents IN
            /\ Range(agents) = AgentNamesOfSession(formations[k].session_id)
            /\ Len(agents) = Cardinality(Range(agents))
            /\ \A i, j \in DOMAIN agents :
                   i < j => AgentRank(agents[i]) < AgentRank(agents[j])

\* C15: collaboration linking runs only after every file of the run has been
\* parsed, and it groups the invocations of the whole run by session: two
\* invocations of one session with different agent names are in each other's
\* collaboration_agents, also when they come from different log files.
C15_LinkingAcrossFiles ==
    \A r \in DOMAIN runs :
        /\ runs[r].pc \in {"start", "reading"} =>
               /\ runs[r].invocations = <<>>
               /\ \A i \in DOMAIN runs[r].raw : runs[r].raw[i].collaboration_agents = <<>>
        /\ runs[r].pc \in {"parsed", "squads", "done"} =>
               /\ runs[r].next > Len(runs[r].files)
               /\ \A i, j \in DOMAIN runs[r].invocations :
                      LET a == runs[r].invocations[i]
                          b == runs[r].invocations[j]
                      IN (a.session_id = b.session_id /\ a.agent_name # b.agent_name)
                             => b.agent_name \in Range(a.collaboration_agents)

C15_Witness ==
    /\ tree.files = <<FileBackend, FileSecurity>>
    /\ runs[1].pc = "parsed"
    /\ Len(runs[1].invocations) = 2
    /\ runs[1].invocations[1].project_path # runs[1].invocations[2].project_path
    /\ runs[1].invocations[1].session_id = runs[1].invocations[2].session_id
    /\ runs[1].invocations[1].collaboration_agents = <<"backend-architect">>
    /\ runs[1].invocations[2].collaboration_agents = <<"security-auditor">>

\* C16: an invocation changes after its creation only in the collaboration
\* back-fill and only in collaboration_agents: after the back-fill, and still
\* after formation detection and XP calculation, the run's invocation list is
\* the extracted list (raw) in the same order with no field but
\* collaboration_agents changed, and its collaboration_agents are those the
\* back-fill wrote.
C16_OnlyCollaborationBackfilled ==
    \A r \in DOMAIN runs :
        runs[r].pc \in {"parsed", "squads", "done"} =>
            /\ Len(runs[r].invocations) = Len(runs[r].raw)
            /\ \A i \in DOMAIN runs[r].raw :
                   runs[r].raw[i] =
                       [runs[r].invocations[i] EXCEPT !.collaboration_agents = <<>>]
            /\ runs[r].invocations = _add_collaboration_context(runs[r].raw)

C16_Witness ==
    /\ tree.files = <<FileInterleaved>>
    /\ runs[2].pc = "done"
    /\ Len(runs[2].invocations) = 3
    /\ runs[2].invocations[1].session_id = "s1"
    /\ runs[2].invocations[2].session_id = "s2"
    /\ runs[2].invocations[3].session_id = "s1"
    /\ runs[2].invocations[1].collaboration_agents # <<>>
    /\ Len(runs[2].formations) = 1

\* C17: runs working concurrently on the same log tree do not coordinate and
\* never write to the tree: under every interleaving a finished run holds the
\* invocations, formations and XP records the analysis of the tree gives on
\* its own.
C17_ConcurrentRunsAsAlone ==
    \A r \in DOMAIN runs :
        runs[r].pc = "done" =>
            /\ \E hash_order \in HashOrders :
                   runs[r].invocations =
                       parse_conversation_logs(
                           LogFilesAt(tree, _get_log_files(tree)), hash_order)
            /\ \E hash_order \in HashOrders :
                   runs[r].formations =
                       detect_squad_formations(runs[r].invocations, hash_order)
            /\ runs[r].agent_xp = calculate_agent_xp(runs[r].invocations)

C17_Witness ==
    /\ Len(tree.files) = 2
    /\ runs[1].pc = "done"
    /\ runs[1].invocations # <<>>
    /\ runs[2].pc = "reading"
    /\ runs[2].next = 2

\* ------------------------------------------------------------------------
\* FeatureCoordinator (gamification/core/feature_coordinator.py) with the
\* agent statistics of AgentRegistry (gamification/core/agent_registry.py)
\* ------------------------------------------------------------------------

\* Enum members; .value is what _save_plans writes to the plans file.
TaskComplexity(value) == [enum |-> "TaskComplexity", value |-> value]
CoordinationStatus(value) == [enum |-> "CoordinationStatus", value |-> value]

TaskComplexityValues == {"simple", "medium", "complex", "mission"}
CoordinationStatusValues == {"planning", "coordinating", "executing", "completed", "failed"}

PLANNING == CoordinationStatus("planning")
COORDINATING == CoordinationStatus("coordinating")
COMPLETED == CoordinationStatus("completed")
FAILED == CoordinationStatus("failed")

\* self.task_templates: per project type, the complexity of each template
\* task, in template order.
task_templates ==
    [project_type \in {"web-app", "api", "data-pipeline", "ai-ml"} |->
        CASE project_type = "web-app" ->
                <<"complex", "complex", "complex", "medium", "complex", "medium", "medium">>
          [] project_type = "api" ->
                <<"complex", "complex", "complex", "medium", "medium", "medium">>
          [] project_type = "data-pipeline" ->
                <<"complex", "complex", "medium", "medium", "medium">>
          [] project_type = "ai-ml" ->
                <<"complex", "complex", "complex", "medium", "medium">>]

\* f"feature_{datetime.now().strftime('%Y%m%d_%H%M%S')}": the clock, to the second.
PlanId(clock) == [prefix |-> "feature", stamp |-> clock]

\* f"{plan_id}_task_{i+1}"
TaskId(plan_id, number) == [plan |-> plan_id, task |-> number]

\* Task(id=..., complexity=...): status "pending", nobody assigned; every
\* task but the first depends on its predecessor.
NewTask(plan_id, number, complexity) ==
    [id |-> TaskId(plan_id, number),
     complexity |-> TaskComplexity(complexity),
     dependencies |-> IF number > 1 THEN <<TaskId(plan_id, number - 1)>> ELSE <<>>,
     status |-> "pending",
     assigned_agent |-> Absent]

\* The FeaturePlan that create_feature_plan builds.
NewPlan(plan_id, project_type) ==
    LET template == IF project_type \in DOMAIN task_templates
                    THEN task_templates[project_type]
                    ELSE task_templates["web-app"]
    IN  [id |-> plan_id,
         project_type |-> project_type,
         tasks |-> [i \in DOMAIN template |-> NewTask(plan_id, i, template[i])],
         coordination_status |-> PLANNING,
         actual_duration |-> 0,
         success_rate |-> Rat(0, 1)]

\* One plan as _save_plans serialises it, and as _load_plans rebuilds it.
PlanToJson(plan) ==
    LET tasks == plan.tasks
    IN  [plan EXCEPT !.coordination_status = plan.coordination_status.value,
                     !.tasks = [i \in DOMAIN tasks |->
                                   [tasks[i] EXCEPT !.complexity = tasks[i].complexity.value]]]

PlanFromJson(plan_data) ==
    LET tasks == plan_data.tasks
    IN  [plan_data EXCEPT !.coordination_status = CoordinationStatus(plan_data.coordination_status),
                          !.tasks = [i \in DOMAIN tasks |->
                                        [tasks[i] EXCEPT !.complexity = TaskComplexity(tasks[i].complexity)]]]

\* TaskComplexity(x) / CoordinationStatus(x) raise ValueError on a non-member.
PlanDataLoads(plan_data) ==
    /\ plan_data.coordination_status \in CoordinationStatusValues
    /\ \A i \in DOMAIN plan_data.tasks : plan_data.tasks[i].complexity \in TaskComplexityValues

_save_plans(active_plans) ==
    [exists |-> TRUE,
     data |-> [plan_id \in DOMAIN active_plans |-> PlanToJson(active_plans[plan_id])]]

\* The cache after _load_plans on an empty cache: any exception empties it.
_load_plans(file) ==
    IF ~file.exists THEN <<>>
    ELSE IF \E plan_id \in DOMAIN file.data : ~PlanDataLoads(file.data[plan_id]) THEN <<>>
    ELSE [plan_id \in DOMAIN file.data |-> PlanFromJson(file.data[plan_id])]

\* Optional[...] results: <<>> is None, <<x>> is x.
None == <<>>

_is_task_completed(plan, task_id) ==
    \E i \in DOMAIN plan.tasks :
        /\ plan.tasks[i].id = task_id
        /\ \A j \in 1 .. i - 1 : plan.tasks[j].id # task_id
        /\ plan.tasks[i].status = "completed"

\* Mutation of get_next_task: the first pending task, whatever it depends on.
GetNextTaskIgnoringDependencies(active_plans, plan_id) ==
    IF plan_id \notin DOMAIN active_plans THEN None
    ELSE LET plan == active_plans[plan_id]
             ready == {i \in DOMAIN plan.tasks : plan.tasks[i].status = "pending"}
         IN  IF ready = {} THEN None
             ELSE <<plan.tasks[CHOOSE i \in ready : \A j \in ready : i <= j]>>

get_next_task(active_plans, plan_id) ==
    IF plan_id \notin DOMAIN active_plans THEN None
    ELSE LET plan == active_plans[plan_id]
             ready == {i \in DOMAIN plan.tasks :
                          /\ plan.tasks[i].status = "pending"
                          /\ \A dep_id \in Range(plan.tasks[i].dependencies) :
                                 _is_task_completed(plan, dep_id)}
         IN  IF ready = {} THEN None
             ELSE <<plan.tasks[CHOOSE i \in ready : \A j \in ready : i <= j]>>

CountTasks(plan, status) == Cardinality({i \in DOMAIN plan.tasks : plan.tasks[i].status = status})

get_plan_status(active_plans, plan_id) ==
    IF plan_id \notin DOMAIN active_plans THEN None
    ELSE LET plan == active_plans[plan_id]
         IN  <<[plan_id |-> plan.id,
                status |-> plan.coordination_status.value,
                progress |-> [completed |-> CountTasks(plan, "completed"),
                              failed |-> CountTasks(plan, "failed"),
                              in_progress |-> CountTasks(plan, "assigned"),
                              pending |-> CountTasks(plan, "pending"),
                              total |-> Len(plan.tasks)],
                actual_duration |-> plan.actual_duration,
                success_rate |-> plan.success_rate,
                next_task |-> get_next_task(active_plans, plan_id)]>>

\* AgentStats(): the dataclass defaults.
AgentStats == [total_calls |-> 0, successful_tasks |-> 0, failed_tasks |-> 0, xp |-> 0, level |-> 1]

\* AgentRegistry._load_stats: the registry's cache after reading the stats file.
_load_stats(stats_cache, file) == IF file.exists THEN file.data ELSE stats_cache

\* AgentRegistry._save_stats: the file holds the registry's whole cache.
_save_stats(stats_cache) == [exists |-> TRUE, data |-> stats_cache]

\* AgentRegistry.update_agent_stats: the registry's cache afterwards (it is
\* then saved to the stats file).
update_agent_stats(stats_cache, file, agent_name, success, xp_gained) ==
    LET cache == IF stats_cache = <<>> THEN _load_stats(stats_cache, file) ELSE stats_cache
        stats == IF agent_name \in DOMAIN cache THEN cache[agent_name] ELSE AgentStats
        xp == IF xp_gained > 0 THEN stats.xp + xp_gained ELSE stats.xp
    IN  (agent_name :> [total_calls |-> stats.total_calls + 1,
                        successful_tasks |-> stats.successful_tasks + (IF success THEN 1 ELSE 0),
                        failed_tasks |-> stats.failed_tasks + (IF success THEN 0 ELSE 1),
                        xp |-> xp,
                        level |-> IF xp_gained > 0 THEN Min(100, 1 + xp \div 100) ELSE stats.level])
        @@ cache

\* complete_task, lines 703-715: int(base_xp * xp_multipliers[complexity]),
\* times 1.2 on success.
TaskXpGained(complexity, success) ==
    LET xp == CASE complexity.value = "simple" -> 100
                [] complexity.value = "medium" -> 200
                [] complexity.value = "complex" -> 300
                [] complexity.value = "mission" -> 500
    IN  IF success THEN (xp * 12) \div 10 ELSE xp

\* Bounds and inputs of the coordinator scenarios.
Coordinators == {1, 2}
MaxClock == 2
MaxPlans == 2
ProjectTypes == {"data-pipeline", "mobile-app"}
DiscoveredAgents == {"backend-architect"}
AgentNames == DiscoveredAgents \cup {"ghost-agent"}
DurationChoices == {0}
TaskNumbers == 1 .. Len(task_templates["web-app"]) + 1

\* The plan ids handed to an instance's methods: those of its plans, and
\* one that no plan has (plan ids never lie in the future).
PlanIds(c) == DOMAIN coordinators[c]._active_plans \cup {PlanId(now + 1)}

\* An instance that has not been constructed yet.
NoCoordinator ==
    [state |-> "none", _active_plans |-> <<>>, created |-> {},
     registry_stats |-> <<>>, tracker_stats |-> <<>>]

InitCoordinator ==
    /\ AnalyzerIdle
    /\ LevelIdle
    /\ SessionIdle
    /\ TreeIdle
    /\ PeripheralIdle
    /\ now = 0
    /\ plans_file = NoFile
    /\ stats_file = NoFile
    /\ squad_tracker \in {"unbound", "AgentsTracker"}
    /\ coordinators = [c \in Coordinators |-> NoCoordinator]

\* The wall clock passes a second boundary.
Tick ==
    /\ now < MaxClock
    /\ now' = now + 1
    /\ UNCHANGED <<plans_file, coordinators, squad_tracker, stats_file>>
    /\ UNCHANGED <<analyzer_vars, level_vars, session_vars, tree_vars, peripheral_vars>>

\* FeatureCoordinator.__init__: line 92 evaluates the name SquadTracker,
\* which feature_coordinator.py itself never binds (NameError); otherwise
\* the instance starts from the plans in the plans file.
Construct(c) ==
    /\ coordinators[c].state = "none"
    /\ coordinators' = [coordinators EXCEPT ![c] =
           IF squad_tracker = "unbound"
           THEN [@ EXCEPT !.state = "failed"]
           ELSE [@ EXCEPT !.state = "ready", !._active_plans = _load_plans(plans_file)]]
    /\ UNCHANGED <<now, plans_file, squad_tracker, stats_file>>
    /\ UNCHANGED <<analyzer_vars, level_vars, session_vars, tree_vars, peripheral_vars>>

\* create_feature_plan: the plan goes into the instance's cache under
\* plan_id, and the instance's cache is written to the plans file.
CreateFeaturePlan(c) ==
    /\ coordinators[c].state = "ready"
    /\ Cardinality(DOMAIN coordinators[c]._active_plans \cup {PlanId(now)}) <= MaxPlans
    /\ \E project_type \in ProjectTypes :
          LET plan_id == PlanId(now)
              active_plans == (plan_id :> NewPlan(plan_id, project_type))
                              @@ coordinators[c]._active_plans
          IN  /\ coordinators' = [coordinators EXCEPT
                     ![c]._active_plans = active_plans,
                     ![c].created = @ \cup {plan_id}]
              /\ plans_file' = _save_plans(active_plans)
    /\ UNCHANGED <<now, squad_tracker, stats_file>>
    /\ UNCHANGED <<analyzer_vars, level_vars, session_vars, tree_vars, peripheral_vars>>

\* The position of task_id in the plan's task list (0 if it is not there).
TaskIndex(plan, task_id) ==
    IF \E i \in DOMAIN plan.tasks : plan.tasks[i].id = task_id
    THEN CHOOSE i \in DOMAIN plan.tasks :
             /\ plan.tasks[i].id = task_id
             /\ \A j \in 1 .. i - 1 : plan.tasks[j].id # task_id
    ELSE 0

\* The plan after a successful assign_task (lines 668-674).
AssignKeepingPlanStatus(plan, i, agent_name) ==
    [plan EXCEPT !.tasks[i].assigned_agent = agent_name, !.tasks[i].status = "assigned"]

Assigned(plan, i, agent_name) ==
    [plan EXCEPT !.tasks[i].assigned_agent = agent_name,
                 !.tasks[i].status = "assigned",
                 !.coordination_status = IF @ = PLANNING THEN COORDINATING ELSE @]

\* Mutation of assign_task: the task is marked before the agent is looked
\* up, and stays marked when the lookup fails.
AssignTaskMarkingFirst(active_plans, plan_id, task_id, agent_name) ==
    IF plan_id \notin DOMAIN active_plans
    THEN [result |-> FALSE, active_plans |-> active_plans]
    ELSE LET plan == active_plans[plan_id]
             i == TaskIndex(plan, task_id)
         IN  IF i = 0 \/ plan.tasks[IF i = 0 THEN 1 ELSE i].status # "pending"
             THEN [result |-> FALSE, active_plans |-> active_plans]
             ELSE [result |-> agent_name \in DiscoveredAgents,
                   active_plans |-> [active_plans EXCEPT
                                        ![plan_id] = Assigned(plan, i, agent_name)]]

\* assign_task: what it returns and the instance's plans afterwards.  It
\* returns False, changing nothing, for an unknown plan, an unknown or
\* non-pending task, or an agent the registry does not know.
assign_task(active_plans, plan_id, task_id, agent_name) ==
    IF plan_id \notin DOMAIN active_plans
    THEN [result |-> FALSE, active_plans |-> active_plans]
    ELSE LET plan == active_plans[plan_id]
             i == TaskIndex(plan, task_id)
         IN  IF i = 0 \/ plan.tasks[IF i = 0 THEN 1 ELSE i].status # "pending"
             THEN [result |-> FALSE, active_plans |-> active_plans]
             ELSE IF agent_name \notin DiscoveredAgents
             THEN [result |-> FALSE, active_plans |-> active_plans]
             ELSE [result |-> TRUE,
                   active_plans |-> [active_plans EXCEPT
                                        ![plan_id] = Assigned(plan, i, agent_name)]]

\* A call of assign_task; the plans file is written on success only.
AssignTaskCall(c, plan_id, task_id, agent_name) ==
    /\ coordinators[c].state = "ready"
    /\ LET call == assign_task(coordinators[c]._active_plans, plan_id, task_id, agent_name)
       IN  /\ coordinators' = [coordinators EXCEPT ![c]._active_plans = call.active_plans]
           /\ plans_file' = IF call.result THEN _save_plans(call.active_plans) ELSE plans_file
    /\ UNCHANGED <<now, squad_tracker, stats_file>>
    /\ UNCHANGED <<analyzer_vars, level_vars, session_vars, tree_vars, peripheral_vars>>

AssignTask(c) ==
    \E plan_id \in PlanIds(c), number \in TaskNumbers, agent_name \in AgentNames :
        AssignTaskCall(c, plan_id, TaskId(plan_id, number), agent_name)

\* Mutation of Completed: a plan counts as COMPLETED only above 0.8.
CompletedAboveThreshold(plan, i, success, duration_minutes) ==
    LET done == [plan EXCEPT !.tasks[i].status = IF success THEN "completed" ELSE "failed",
                             !.actual_duration = @ + duration_minutes]
        all_completed == \A j \in DOMAIN done.tasks : done.tasks[j].status \in {"completed", "failed"}
        completed == Cardinality({j \in DOMAIN done.tasks : done.tasks[j].status = "completed"})
        success_rate == Rat(completed, Len(done.tasks))
    IN  IF all_completed
        THEN [done EXCEPT !.success_rate = success_rate,
                          !.coordination_status =
                              IF ~RatLeq(success_rate, Rat(8, 10)) THEN COMPLETED ELSE FAILED]
        ELSE done

\* Mutation of Completed: an unsuccessful task goes back to 'pending'.
CompletedReopening(plan, i, success, duration_minutes) ==
    [plan EXCEPT !.tasks[i].status = IF success THEN "completed" ELSE "pending",
                 !.tasks[i].assigned_agent = IF success THEN @ ELSE Absent,
                 !.actual_duration = @ + duration_minutes]

\* The plan after complete_task's lines 694-742.
Completed(plan, i, success, duration_minutes) ==
    LET done == [plan EXCEPT !.tasks[i].status = IF success THEN "completed" ELSE "failed",
                             !.actual_duration = @ + duration_minutes]
        all_completed == \A j \in DOMAIN done.tasks : done.tasks[j].status \in {"completed", "failed"}
        success_rate == Rat(CountTasks(done, "completed"), Len(done.tasks))
    IN  IF all_completed
        THEN [done EXCEPT !.success_rate = success_rate,
                          !.coordination_status =
                              IF RatLeq(Rat(8, 10), success_rate) THEN COMPLETED ELSE FAILED]
        ELSE done

\* complete_task: returns False, changing nothing, for an unknown plan or a
\* task that is unknown or not assigned.  Otherwise the tracker's registry
\* (log_agent_call, agents_tracker.py lines 68-72) and then the
\* coordinator's own registry each update and save the agent's statistics.
\* What log_agent_call does to the tracker's own data file is the subject
\* of the AgentsTracker section below.
CompleteTaskCall(c, plan_id, task_id, success, duration_minutes) ==
    /\ coordinators[c].state = "ready"
    /\ LET active_plans == coordinators[c]._active_plans
       IN  IF plan_id \notin DOMAIN active_plans
           THEN UNCHANGED <<coordinators, plans_file, stats_file>>
           ELSE LET plan == active_plans[plan_id]
                    i == TaskIndex(plan, task_id)
                IN  IF i = 0 \/ plan.tasks[IF i = 0 THEN 1 ELSE i].status # "assigned"
                    THEN UNCHANGED <<coordinators, plans_file, stats_file>>
                    ELSE LET task == plan.tasks[i]
                             after == [active_plans EXCEPT
                                          ![plan_id] = Completed(plan, i, success, duration_minutes)]
                             tracker_stats == update_agent_stats(
                                 coordinators[c].tracker_stats, stats_file,
                                 task.assigned_agent, success, IF success THEN 50 ELSE 10)
                             registry_stats == update_agent_stats(
                                 coordinators[c].registry_stats, _save_stats(tracker_stats),
                                 task.assigned_agent, success,
                                 TaskXpGained(task.complexity, success))
                         IN  /\ coordinators' = [coordinators EXCEPT
                                    ![c]._active_plans = after,
                                    ![c].tracker_stats = tracker_stats,
                                    ![c].registry_stats = registry_stats]
                             /\ stats_file' = _save_stats(registry_stats)
                             /\ plans_file' = _save_plans(after)
    /\ UNCHANGED <<now, squad_tracker>>
    /\ UNCHANGED <<analyzer_vars, level_vars, session_vars, tree_vars, peripheral_vars>>

CompleteTask(c) ==
    \E plan_id \in PlanIds(c), number \in TaskNumbers, success \in BOOLEAN, duration_minutes \in DurationChoices :
        CompleteTaskCall(c, plan_id, TaskId(plan_id, number), success, duration_minutes)

\* Several coordinators creating plans over the shared plans file.
NextPlans ==
    \/ Tick
    \/ \E c \in Coordinators : Construct(c)
    \/ \E c \in Coordinators : CreateFeaturePlan(c)

SpecPlans == InitCoordinator /\ [][NextPlans]_vars

\* The first plan of a coordinator that has none.
CreateFirstPlan(c) ==
    /\ coordinators[c]._active_plans = <<>>
    /\ CreateFeaturePlan(c)

\* One coordinator working through the tasks of its plan.
NextTasks ==
    \/ Construct(1)
    \/ CreateFirstPlan(1)
    \/ AssignTask(1)
    \/ CompleteTask(1)

SpecTasks == InitCoordinator /\ [][NextTasks]_vars

\* A driver working a plan off: it takes the task get_next_task returns
\* and assigns it to a known agent ...
DriverAssign(c) ==
    \E plan_id \in DOMAIN coordinators[c]._active_plans, agent_name \in DiscoveredAgents :
        LET plan == coordinators[c]._active_plans[plan_id]
            next == get_next_task(coordinators[c]._active_plans, plan_id)
        IN  /\ \A i \in DOMAIN plan.tasks : plan.tasks[i].status # "assigned"
            /\ next # None
            /\ AssignTaskCall(c, plan_id, next[1].id, agent_name)

\* ... and completes it, with success or with failure.
DriverComplete(c) ==
    \E plan_id \in DOMAIN coordinators[c]._active_plans, success \in BOOLEAN :
        LET plan == coordinators[c]._active_plans[plan_id]
        IN  \E i \in DOMAIN plan.tasks :
               /\ plan.tasks[i].status = "assigned"
               /\ CompleteTaskCall(c, plan_id, plan.tasks[i].id, success, 0)

NextDriver ==
    \/ \E c \in Coordinators : Construct(c)
    \/ \E c \in Coordinators : CreateFirstPlan(c)
    \/ \E c \in Coordinators : DriverAssign(c)
    \/ \E c \in Coordinators : DriverComplete(c)

\* The driver keeps going: whenever it can assign or complete, it does.
SpecDriver ==
    /\ InitCoordinator
    /\ [][NextDriver]_vars
    /\ \A c \in Coordinators : WF_vars(DriverAssign(c) \/ DriverComplete(c))

\* ------------------------------------------------------------------------
\* Properties of the feature coordinator
\* ------------------------------------------------------------------------

\* The instances that have created a plan.
Creators == {c \in Coordinators : coordinators[c].created # {}}

\* C18: when several coordinators sharing the plans file have each created
\* a plan, get_plan_status returns a status (not None) for every created
\* plan on every one of those coordinators.
C18_EveryPlanAccessibleEverywhere ==
    \A c \in Creators, d \in Creators :
        \A plan_id \in coordinators[c].created :
            get_plan_status(coordinators[d]._active_plans, plan_id) # None

\* The plans an instance holds.
ActivePlans(c) == coordinators[c]._active_plans

\* C19: get_next_task returns a task only if the task is pending and every
\* one of its dependencies has status completed; on a freshly created plan
\* (nothing assigned yet) it returns the plan's first task.
C19_NextTaskHonoursDependencies ==
    \A c \in Coordinators : \A plan_id \in DOMAIN ActivePlans(c) :
        LET plan == ActivePlans(c)[plan_id]
            next == get_next_task(ActivePlans(c), plan_id)
        IN  /\ next # None =>
                /\ \E i \in DOMAIN plan.tasks : plan.tasks[i] = next[1]
                /\ next[1].status = "pending"
                /\ \A dep_id \in Range(next[1].dependencies) :
                       \E i \in DOMAIN plan.tasks :
                           plan.tasks[i].id = dep_id /\ plan.tasks[i].status = "completed"
            /\ (\A i \in DOMAIN plan.tasks : plan.tasks[i].status = "pending") =>
                /\ next # None
                /\ next[1].id = TaskId(plan_id, 1)
                /\ next[1].dependencies = <<>>

\* The first task is completed, a later task was assigned out of order,
\* and the second task is the one returned.
C19_Witness ==
    \E plan_id \in DOMAIN ActivePlans(1) :
        LET plan == ActivePlans(1)[plan_id]
        IN  /\ plan.tasks[1].status = "completed"
            /\ plan.tasks[3].status = "assigned"
            /\ get_next_task(ActivePlans(1), plan_id) = <<plan.tasks[2]>>

\* C20: a newly created plan has coordination status 'planning' and keeps
\* it over every step but a successful assign_task on one of its tasks,
\* which sets 'coordinating'.
C20_PlanningUntilFirstAssign ==
    [][\A c \in Coordinators : \A plan_id \in DOMAIN coordinators'[c]._active_plans :
          LET after == coordinators'[c]._active_plans[plan_id]
          IN  IF plan_id \in coordinators'[c].created \ coordinators[c].created
              THEN after.coordination_status.value = "planning"
              ELSE (/\ plan_id \in DOMAIN ActivePlans(c)
                    /\ ActivePlans(c)[plan_id].coordination_status.value = "planning") =>
                   LET before == ActivePlans(c)[plan_id]
                       assigned == \E i \in DOMAIN before.tasks :
                                       /\ before.tasks[i].status = "pending"
                                       /\ after.tasks[i].status = "assigned"
                   IN  after.coordination_status.value =
                           IF assigned THEN "coordinating" ELSE "planning"]_vars

\* Just after the first successful assign_task: one task assigned, the
\* others pending, the plan coordinating.
C20_Witness ==
    \E plan_id \in DOMAIN ActivePlans(1) :
        LET plan == ActivePlans(1)[plan_id]
        IN  /\ plan.coordination_status = COORDINATING
            /\ Cardinality({i \in DOMAIN plan.tasks : plan.tasks[i].status = "assigned"}) = 1
            /\ \A i \in DOMAIN plan.tasks : plan.tasks[i].status \in {"pending", "assigned"}

\* C21: assign_task with an agent name the registry does not know returns
\* False and leaves the task pending and unassigned and the plan as it was;
\* assigning the same task to a known agent afterwards succeeds.
C21_UnknownAgentLeavesTaskAssignable ==
    \A c \in Coordinators : \A plan_id \in DOMAIN ActivePlans(c) :
        \A i \in DOMAIN ActivePlans(c)[plan_id].tasks :
            LET task == ActivePlans(c)[plan_id].tasks[i]
                refused == assign_task(ActivePlans(c), plan_id, task.id, "ghost-agent")
                retried == assign_task(refused.active_plans, plan_id, task.id, "backend-architect")
            IN  task.status = "pending" =>
                    /\ refused.result = FALSE
                    /\ refused.active_plans[plan_id].tasks[i].status = "pending"
                    /\ refused.active_plans[plan_id].tasks[i].assigned_agent = Absent
                    /\ refused.active_plans[plan_id].coordination_status =
                           ActivePlans(c)[plan_id].coordination_status
                    /\ retried.result = TRUE
                    /\ retried.active_plans[plan_id].tasks[i].status = "assigned"
                    /\ retried.active_plans[plan_id].tasks[i].assigned_agent = "backend-architect"

\* A plan under way (one task completed, one failed) that still has a
\* pending task to refuse and retry.
C21_Witness ==
    \E plan_id \in DOMAIN ActivePlans(1) :
        LET plan == ActivePlans(1)[plan_id]
        IN  /\ plan.tasks[1].status = "completed"
            /\ plan.tasks[2].status = "failed"
            /\ plan.tasks[3].status = "pending"
            /\ "ghost-agent" \notin DiscoveredAgents

\* ------------------------------------------------------------------------
\* AgentRegistry: agent discovery and its cache
\* (gamification/core/agent_registry.py)
\* ------------------------------------------------------------------------

\* The agent files that may exist, each in one of two revisions, and the
\* cache timeouts (seconds) a registry may be built with.
AgentFilePool == {"backend-architect", "security-auditor"}
Revisions == {"rev-a", "rev-b"}
CacheTimeouts == {1, 2}

\* AgentRegistry(cache_timeout): empty cache, no timestamp.  `last` records
\* the latest discover_agents call.
NewRegistry(cache_timeout) ==
    [cache_timeout |-> cache_timeout,
     _cache |-> <<>>,
     _cache_timestamp |-> None,
     cache_file |-> NoFile,
     last |-> None]

\* `not self._cache` is true of an empty dict as well.
_is_cache_valid(reg, clock) ==
    IF reg._cache = <<>> \/ reg._cache_timestamp = None
    THEN FALSE
    ELSE clock - reg._cache_timestamp[1] < reg.cache_timeout

\* discover_agents: the mapping it returns, whether it scanned the search
\* paths, and the registry afterwards.
discover_agents(reg, files, clock, force_refresh) ==
    IF ~force_refresh /\ _is_cache_valid(reg, clock)
    THEN [agents |-> reg._cache, scanned |-> FALSE, registry |-> reg]
    ELSE [agents |-> files,
          scanned |-> TRUE,
          registry |-> [reg EXCEPT
              !._cache = files,
              !._cache_timestamp = <<clock>>,
              !.cache_file = [exists |-> TRUE,
                              data |-> [timestamp |-> clock, agents |-> files]]]]

InitRegistry ==
    /\ AnalyzerIdle
    /\ LevelIdle
    /\ SessionIdle
    /\ TreeIdle
    /\ CoordinatorIdle
    /\ registry \in {NewRegistry(cache_timeout) : cache_timeout \in CacheTimeouts}
    /\ agent_files = <<>>
    /\ tracker = <<>>
    /\ manager = <<>>

\* An agent file is written (created or edited) under a search path.
WriteAgentFile ==
    /\ \E name \in AgentFilePool, revision \in Revisions :
          /\ name \in DOMAIN agent_files => agent_files[name] # revision
          /\ agent_files' = (name :> revision) @@ agent_files
    /\ UNCHANGED <<registry, tracker, manager>>
    /\ UNCHANGED <<analyzer_vars, level_vars, session_vars, tree_vars, coordinator_vars>>

\* An agent file is deleted.
RemoveAgentFile ==
    /\ \E name \in DOMAIN agent_files :
          agent_files' = [other \in DOMAIN agent_files \ {name} |-> agent_files[other]]
    /\ UNCHANGED <<registry, tracker, manager>>
    /\ UNCHANGED <<analyzer_vars, level_vars, session_vars, tree_vars, coordinator_vars>>

\* A call of discover_agents.
DiscoverAgents ==
    /\ \E force_refresh \in BOOLEAN :
          LET call == discover_agents(registry, agent_files, now, force_refresh)
          IN  registry' = [call.registry EXCEPT !.last =
                  <<[at |-> now,
                     force_refresh |-> force_refresh,
                     previous |-> registry._cache_timestamp,
                     cached |-> registry._cache,
                     files |-> agent_files,
                     scanned |-> call.scanned,
                     agents |-> call.agents]>>]
    /\ UNCHANGED <<agent_files, tracker, manager>>
    /\ UNCHANGED <<analyzer_vars, level_vars, session_vars, tree_vars, coordinator_vars>>

NextRegistry ==
    \/ Tick
    \/ WriteAgentFile
    \/ RemoveAgentFile
    \/ DiscoverAgents

SpecRegistry == InitRegistry /\ [][NextRegistry]_vars

\* C22: a discover_agents call without force_refresh returns the cached
\* mapping, without a scan, whenever the previous discovery is less than
\* cache_timeout seconds old; once the cache is older than cache_timeout it
\* scans again and returns what the agent files give.
C22_CachedWithinTimeout ==
    registry.last # None =>
        LET call == registry.last[1]
        IN  (~call.force_refresh /\ call.previous # None) =>
                LET age == call.at - call.previous[1]
                IN  /\ age < registry.cache_timeout =>
                           /\ ~call.scanned
                           /\ call.agents = call.cached
                    /\ age > registry.cache_timeout =>
                           /\ call.scanned
                           /\ call.agents = call.files

\* ------------------------------------------------------------------------
\* AgentsTracker (agents_tracker.py): log_agent_call and what it stores
\* ------------------------------------------------------------------------

\* "keyword in text": whether a word of the vocabulary has the keyword as a
\* substring.
HasSubstring(w, keyword) ==
    \/ w = keyword
    \/ <<w, keyword>> \in {<<"prefix", "fix">>, <<"apis", "api">>, <<"unresolved", "resolved">>}

TextContains(text, keyword) == \E i \in DOMAIN text : HasSubstring(text[i], keyword)

complex_keywords ==
    {"architecture", "refactor", "implement", "design", "system", "framework", "api", "database"}
medium_keywords ==
    {"debug", "fix", "update", "modify", "enhance", "optimize", "test", "analyze"}

\* AgentsTracker._determine_task_complexity
_determine_task_complexity(task) ==
    LET task_lower == LowerText(task)
    IN  IF \E keyword \in complex_keywords : TextContains(task_lower, keyword) THEN "complex"
        ELSE IF \E keyword \in medium_keywords : TextContains(task_lower, keyword) THEN "medium"
        ELSE "simple"

\* _load_data without a data file.  last_updated and last_used hold
\* timestamps nothing reads; avg_task_time and specialties are never written
\* after initialisation; they are left out.
NewTrackerData ==
    [agents |-> <<>>, missions |-> <<>>, achievements_unlocked |-> <<>>, total_xp |-> 0,
     stats |-> [total_missions |-> 0, success_rate |-> Rat(0, 1),
                avg_completion_time |-> Rat(0, 1)]]

\* The record of an agent called for the first time (lines 75-89).
NewTrackedAgent ==
    [level |-> 1, xp |-> 0, total_calls |-> 0, successful_tasks |-> 0, failed_tasks |-> 0,
     errors_resolved |-> 0, achievements |-> <<>>, daily_streak |-> 0,
     last_login_date |-> None]

InSeq(x, seq) == \E i \in DOMAIN seq : seq[i] = x

\* One "if ... not in agent['achievements']: append, agent['xp'] += bonus".
Unlock(state, condition, achievement, bonus) ==
    IF condition /\ ~InSeq(achievement, state.agent.achievements)
    THEN [agent |-> [state.agent EXCEPT !.xp = @ + bonus],
          achievements |-> Append(state.achievements, achievement)]
    ELSE state

\* AgentsTracker._check_achievements: the agent with the bonus XP added and
\* the achievements appended; agent["level"] is read, never written.
_check_achievements(missions, agent_name, agent, old_level) ==
    LET fast_tasks == {i \in DOMAIN missions :
                          missions[i].agent = agent_name /\ missions[i].duration < 60}
        first == Unlock([agent |-> agent, achievements |-> <<>>],
                        agent.successful_tasks = 1, "first-blood", 50)
        speed == Unlock(first, Cardinality(fast_tasks) >= 5, "speed-demon", 100)
        bugs == Unlock(speed, agent.errors_resolved >= 10, "bug-hunter", 150)
        levels_ == IF agent.level > old_level
                   THEN IF agent.level = 3 /\ ~InSeq("expert", agent.achievements)
                        THEN Unlock(bugs, TRUE, "expert", 100)
                        ELSE Unlock(bugs, agent.level = 5, "elite", 200)
                   ELSE bugs
    IN  [levels_.agent EXCEPT !.achievements = @ \o levels_.achievements]

\* AgentsTracker._update_stats
_update_stats(stats, missions) ==
    IF missions = <<>> THEN stats
    ELSE LET successful == Cardinality({i \in DOMAIN missions : missions[i].success})
             timed == {i \in DOMAIN missions : missions[i].duration > 0}
         IN  [total_missions |-> Len(missions),
              success_rate |-> Rat(successful * 100, Len(missions)),
              avg_completion_time |->
                  IF timed = {} THEN stats.avg_completion_time
                  ELSE Rat(SumSeq([i \in DOMAIN missions |->
                                      IF i \in timed THEN missions[i].duration ELSE 0]),
                           Cardinality(timed))]

RECURSIVE SumOver(_, _)
SumOver(f, keys) ==
    IF keys = {} THEN 0
    ELSE LET k == CHOOSE x \in keys : TRUE IN f[k] + SumOver(f, keys \ {k})

\* The level the tracker stores for an XP total (_calculate_level).
StoredLevel(xp) == get_level_from_xp(xp)

\* Lines 74-142 of log_agent_call with session_data = None: the agent's
\* record with the call counted, the streak updated, the session's XP added
\* and the level computed from the new XP; and the XP gained.  today is
\* datetime.now().date(), counted in days.
Levelled(before, task, success, error_msg, duration_seconds, today) ==
    LET total_calls == before.total_calls + 1
        daily_streak == IF before.last_login_date = <<today>> THEN before.daily_streak
                        ELSE IF before.last_login_date = <<today - 1>>
                        THEN before.daily_streak + 1
                        ELSE 1
        successful_tasks == before.successful_tasks + (IF success THEN 1 ELSE 0)
        session == [EmptySession EXCEPT
                       !.has_tasks = TRUE,
                       !.tasks = <<_determine_task_complexity(task)>>,
                       !.zero_errors = success,
                       !.fast_completion =
                           success /\ duration_seconds > 0 /\ duration_seconds < 60,
                       !.first_try_success =
                           success /\ (\/ before.failed_tasks = 0
                                       \/ successful_tasks * 10 > 9 * Max(total_calls, 1)),
                       !.daily_login = TRUE,
                       !.streak_days = daily_streak]
    IN  {[xp_gained |-> xp_gained,
          agent |-> [before EXCEPT
                        !.total_calls = total_calls,
                        !.daily_streak = daily_streak,
                        !.last_login_date = <<today>>,
                        !.successful_tasks = successful_tasks,
                        !.failed_tasks = @ + (IF success THEN 0 ELSE 1),
                        !.errors_resolved =
                            IF /\ ~success
                               /\ error_msg # None
                               /\ TextContains(LowerText(error_msg), "resolved")
                            THEN @ + 1 ELSE @,
                        !.xp = @ + xp_gained,
                        !.level = StoredLevel(before.xp + xp_gained)]] :
            xp_gained \in {calculate_session_xp(session).total_xp}}

\* Lines 144-173: the mission is appended, the achievements are checked, the
\* totals are updated; the data to save and the dict returned.
Recorded(data, agent_name, missions, old_level, xp_gained, agent) ==
    LET agents == (agent_name :> agent) @@ data.agents
        earlier == IF agent_name \in DOMAIN data.agents
                   THEN Len(data.agents[agent_name].achievements) ELSE 0
        unlocked == SubSeq(agent.achievements, earlier + 1, Len(agent.achievements))
    IN  [data |-> [agents |-> agents,
                   missions |-> missions,
                   achievements_unlocked |->
                       data.achievements_unlocked \o
                           [i \in DOMAIN unlocked |->
                               [agent |-> agent_name, achievement |-> unlocked[i]]],
                   total_xp |-> SumOver([a \in DOMAIN agents |-> agents[a].xp], DOMAIN agents),
                   stats |-> _update_stats(data.stats, missions)],
         result |-> [xp_gained |-> xp_gained, new_level |-> agent.level,
                     level_up |-> agent.level > old_level, total_xp |-> agent.xp]]

\* AgentsTracker.log_agent_call from line 74 on.
log_agent_call(data, agent_name, task, success, error_msg, duration_seconds, today) ==
    LET before == IF agent_name \in DOMAIN data.agents
                  THEN data.agents[agent_name] ELSE NewTrackedAgent
    IN  CHOOSE call \in
            {Recorded(data, agent_name, missions, before.level, levelled.xp_gained, agent) :
                <<levelled, missions, agent>> \in
                    {<<l, m, _check_achievements(m, agent_name, l.agent, before.level)>> :
                        <<l, m>> \in
                            {<<l, Append(data.missions,
                                         [agent |-> agent_name, task |-> task,
                                          success |-> success, xp_gained |-> l.xp_gained,
                                          duration |-> duration_seconds,
                                          error |-> error_msg])>> :
                                l \in Levelled(before, task, success, error_msg,
                                               duration_seconds, today)}}} : TRUE

\* The inputs of the modelled calls.
TrackedAgents == {"backend-architect", "security-auditor"}
TaskTexts == {<<"say", "hello">>, <<"design", "the", "API">>}
ErrorTexts == {None, <<"Resolved", "on", "retry">>}
DurationsSeconds == {0, 30, 90}
DayChoices == {0, 1, 2}
MaxCalls == 2

\* A tracker: its data, the data file, the cache of its registry's
\* statistics, the date, and what the last call returned.
TrackerOver(data, registry_stats, today) ==
    [data |-> data, data_file |-> [exists |-> data # NewTrackerData, data |-> data],
     registry_stats |-> registry_stats, today |-> today, calls |-> 0, last |-> None]

\* One whole call: the registry's statistics (lines 68-72), then the
\* tracker's own data, saved by _save_data.
TrackerAfter(t, file, agent_name, task, success, error_msg, duration_seconds) ==
    LET registry_stats == update_agent_stats(t.registry_stats, file, agent_name, success,
                                             IF success THEN 50 ELSE 10)
        call == log_agent_call(t.data, agent_name, task, success, error_msg,
                               duration_seconds, t.today)
    IN  [tracker |-> [t EXCEPT !.data = call.data,
                               !.data_file = [exists |-> TRUE, data |-> call.data],
                               !.registry_stats = registry_stats,
                               !.calls = @ + 1,
                               !.last = <<call.result>>],
         stats_file |-> _save_stats(registry_stats)]

\* The same call made n times over, as an earlier process left it on disk.
RECURSIVE Repeated(_, _, _, _, _)
Repeated(n, agent_name, success, error_msg, duration_seconds) ==
    IF n = 0
    THEN [tracker |-> TrackerOver(NewTrackerData, <<>>, 0), stats_file |-> NoFile]
    ELSE LET earlier == Repeated(n - 1, agent_name, success, error_msg, duration_seconds)
         IN  TrackerAfter(earlier.tracker, earlier.stats_file, agent_name,
                          <<"say", "hello">>, success, error_msg, duration_seconds)

\* What the tracker of a new process finds: nothing, four quick missions,
\* or nine failures whose errors were resolved, all of day 0.
EarlierRuns ==
    {Repeated(0, "backend-architect", TRUE, None, 30),
     Repeated(4, "backend-architect", TRUE, None, 30),
     Repeated(9, "backend-architect", FALSE, <<"Resolved", "on", "retry">>, 90)}

InitTracker ==
    /\ AnalyzerIdle
    /\ LevelIdle
    /\ SessionIdle
    /\ TreeIdle
    /\ now = 0 /\ plans_file = NoFile /\ coordinators = <<>> /\ squad_tracker = "unbound"
    /\ RegistryIdle
    /\ manager = <<>>
    /\ \E earlier \in EarlierRuns, today \in DayChoices :
          /\ tracker = TrackerOver(earlier.tracker.data, <<>>, today)
          /\ stats_file = earlier.stats_file

LogAgentCall ==
    /\ tracker.calls < MaxCalls
    /\ \E agent_name \in TrackedAgents, task \in TaskTexts, success \in BOOLEAN,
          error_msg \in ErrorTexts, duration_seconds \in DurationsSeconds :
          LET after == TrackerAfter(tracker, stats_file, agent_name, task, success,
                                    error_msg, duration_seconds)
          IN  /\ tracker' = after.tracker
              /\ stats_file' = after.stats_file
    /\ UNCHANGED <<now, plans_file, coordinators, squad_tracker, registry, agent_files, manager>>
    /\ UNCHANGED <<analyzer_vars, level_vars, session_vars, tree_vars>>

NextTracker == LogAgentCall

SpecTracker == InitTracker /\ [][NextTracker]_vars

\* ------------------------------------------------------------------------
\* ConnectionManager (arena-backend/app/services/notification_service.py)
\* ------------------------------------------------------------------------

UserIds == {"u1", "u2"}
WebSockets == {"ws-a", "ws-b", "ws-c"}

\* ConnectionManager.__init__.  active_connections is a dict: its entries
\* are kept in insertion order, which is the order its keys are iterated
\* in.  closed holds the sockets whose send_text raises; sent holds the
\* sockets whose send_text returned during the running call; last is what
\* the last broadcast_message did.
NewManager ==
    [active_connections |-> <<>>, connection_metadata |-> <<>>,
     closed |-> {}, sent |-> {}, last |-> None]

\* list(self.active_connections.keys())
Keys(active_connections) ==
    [i \in DOMAIN active_connections |-> active_connections[i].user_id]

\* self.active_connections[user_id], the empty set for a missing key.
ConnectionsOf(active_connections, user_id) ==
    UNION {active_connections[i].websockets :
              i \in {j \in DOMAIN active_connections : active_connections[j].user_id = user_id}}

\* ConnectionManager.disconnect
disconnect(m, websocket) ==
    IF websocket \notin DOMAIN m.connection_metadata THEN m
    ELSE LET user_id == m.connection_metadata[websocket].user_id
             discarded == [i \in DOMAIN m.active_connections |->
                              IF m.active_connections[i].user_id = user_id
                              THEN [m.active_connections[i] EXCEPT !.websockets = @ \ {websocket}]
                              ELSE m.active_connections[i]]
         IN  [m EXCEPT
                 !.active_connections =
                     SelectSeq(discarded, LAMBDA entry :
                         entry.user_id # user_id \/ entry.websockets # {}),
                 !.connection_metadata =
                     [w \in DOMAIN m.connection_metadata \ {websocket} |->
                         m.connection_metadata[w]]]

RECURSIVE DisconnectAll(_, _)
DisconnectAll(m, websockets) ==
    IF websockets = {} THEN m
    ELSE LET websocket == CHOOSE w \in websockets : TRUE
         IN  DisconnectAll(disconnect(m, websocket), websockets \ {websocket})

\* ConnectionManager.send_personal_message: send_text on a copy of the
\* user's connections; the ones that raise are disconnected afterwards.
send_personal_message(m, user_id) ==
    IF user_id \notin Range(Keys(m.active_connections)) THEN m
    ELSE LET websockets == ConnectionsOf(m.active_connections, user_id)
             disconnected == websockets \cap m.closed
         IN  DisconnectAll([m EXCEPT !.sent = @ \cup (websockets \ m.closed)], disconnected)

\* The loop of broadcast_message over the live view active_connections.keys():
\* each next() of the iterator raises RuntimeError once the dict's size
\* differs from its size when the loop began, then yields the key at the
\* iterator's position, or ends the loop.
RECURSIVE BroadcastFrom(_, _, _)
BroadcastFrom(m, position, size) ==
    IF Len(m.active_connections) # size
    THEN [manager |-> m, outcome |-> "RuntimeError"]
    ELSE IF position > Len(m.active_connections)
    THEN [manager |-> m, outcome |-> "returned"]
    ELSE BroadcastFrom(send_personal_message(m, m.active_connections[position].user_id),
                       position + 1, size)

\* ConnectionManager.broadcast_message
broadcast_message(m) == BroadcastFrom(m, 1, Len(m.active_connections))

\* A socket the manager no longer holds is gone for good.
Forgotten(m) == [m EXCEPT !.closed = @ \cap DOMAIN m.connection_metadata]

InitManager ==
    /\ AnalyzerIdle
    /\ LevelIdle
    /\ SessionIdle
    /\ TreeIdle
    /\ CoordinatorIdle
    /\ RegistryIdle
    /\ tracker = <<>>
    /\ manager = NewManager

\* ConnectionManager.connect for a socket that is open: registered, then
\* sent the confirmation through send_personal_message.
Connect ==
    /\ \E websocket \in WebSockets \ (DOMAIN manager.connection_metadata \cup manager.closed),
          user_id \in UserIds :
          LET known == user_id \in Range(Keys(manager.active_connections))
              added == IF known
                       THEN [i \in DOMAIN manager.active_connections |->
                                IF manager.active_connections[i].user_id = user_id
                                THEN [manager.active_connections[i] EXCEPT
                                         !.websockets = @ \cup {websocket}]
                                ELSE manager.active_connections[i]]
                       ELSE Append(manager.active_connections,
                                   [user_id |-> user_id, websockets |-> {websocket}])
          IN  manager' = Forgotten(send_personal_message(
                  [manager EXCEPT
                      !.active_connections = added,
                      !.connection_metadata = (websocket :> [user_id |-> user_id]) @@ @,
                      !.sent = {},
                      !.last = None],
                  user_id))
    /\ UNCHANGED <<registry, agent_files, tracker>>
    /\ UNCHANGED <<analyzer_vars, level_vars, session_vars, tree_vars, coordinator_vars>>

\* The websocket endpoint's disconnect of a socket.
Disconnect ==
    /\ \E websocket \in DOMAIN manager.connection_metadata :
          manager' = Forgotten([disconnect(manager, websocket) EXCEPT
                                   !.sent = {}, !.last = None])
    /\ UNCHANGED <<registry, agent_files, tracker>>
    /\ UNCHANGED <<analyzer_vars, level_vars, session_vars, tree_vars, coordinator_vars>>

\* A registered socket's peer goes away: its send_text raises from now on.
SocketCloses ==
    /\ \E websocket \in DOMAIN manager.connection_metadata \ manager.closed :
          manager' = [manager EXCEPT !.closed = @ \cup {websocket}, !.sent = {}, !.last = None]
    /\ UNCHANGED <<registry, agent_files, tracker>>
    /\ UNCHANGED <<analyzer_vars, level_vars, session_vars, tree_vars, coordinator_vars>>

\* A call of broadcast_message; last records what it found and what it did.
BroadcastMessage ==
    /\ LET call == broadcast_message([manager EXCEPT !.sent = {}])
       IN  manager' = Forgotten([call.manager EXCEPT
                          !.last = <<[outcome |-> call.outcome,
                                      active_connections |-> manager.active_connections,
                                      closed |-> manager.closed]>>])
    /\ UNCHANGED <<registry, agent_files, tracker>>
    /\ UNCHANGED <<analyzer_vars, level_vars, session_vars, tree_vars, coordinator_vars>>

NextManager == Connect \/ Disconnect \/ SocketCloses \/ BroadcastMessage

SpecManager == InitManager /\ [][NextManager]_vars

\* ------------------------------------------------------------------------
\* Further properties of the feature coordinator
\* ------------------------------------------------------------------------

\* The plan ids that create_feature_plan has produced so far, on any instance.
CreatedIds == UNION {coordinators[c].created : c \in Coordinators}

\* C23: every create_feature_plan call produces a plan id that no earlier
\* call (on the same or on another instance) produced, so that a create
\* never replaces a plan that is already in memory or in the plans file.
C23_PlanIdsUnique ==
    [][\A c \in Coordinators :
          (/\ coordinators[c].state = "ready"
           /\ coordinators'[c]._active_plans # coordinators[c]._active_plans) =>
              \E plan_id \in DOMAIN coordinators'[c]._active_plans :
                  /\ plan_id \notin DOMAIN coordinators[c]._active_plans
                  /\ plan_id \notin CreatedIds
                  /\ plan_id \notin DOMAIN plans_file.data]_vars

\* The plans an instance holds before and after a step.
PlansKept(c) == DOMAIN coordinators[c]._active_plans \cap DOMAIN coordinators'[c]._active_plans

\* C24: no step moves a task to 'assigned' while one of its dependencies
\* is not completed.
C24_AssignedOnlyAfterDependencies ==
    [][\A c \in Coordinators : \A plan_id \in PlansKept(c) :
          LET before == coordinators[c]._active_plans[plan_id]
              after == coordinators'[c]._active_plans[plan_id]
          IN  \A i \in DOMAIN before.tasks :
                  (before.tasks[i].status # "assigned" /\ after.tasks[i].status = "assigned") =>
                      \A dep_id \in Range(before.tasks[i].dependencies) :
                          \E j \in DOMAIN before.tasks :
                              /\ before.tasks[j].id = dep_id
                              /\ before.tasks[j].status = "completed"]_vars

\* What the stats file holds for an agent (the defaults if it has no entry).
PersistedStats(file, agent_name) ==
    IF file.exists /\ agent_name \in DOMAIN file.data THEN file.data[agent_name] ELSE AgentStats

\* C25: every complete_task call that returns True (a step that takes a
\* task from 'assigned' to 'completed' or 'failed') raises the persisted
\* statistics of the task's agent by exactly one call: total_calls + 1,
\* and + 1 on successful_tasks or on failed_tasks, as the task ended.
C25_OneCallPerCompletedTask ==
    [][\A c \in Coordinators : \A plan_id \in PlansKept(c) :
          LET before == coordinators[c]._active_plans[plan_id]
              after == coordinators'[c]._active_plans[plan_id]
          IN  \A i \in DOMAIN before.tasks :
                  (before.tasks[i].status = "assigned" /\ after.tasks[i].status # "assigned") =>
                      LET old == PersistedStats(stats_file, before.tasks[i].assigned_agent)
                          new == PersistedStats(stats_file', before.tasks[i].assigned_agent)
                          ok == IF after.tasks[i].status = "completed" THEN 1 ELSE 0
                      IN  /\ new.total_calls = old.total_calls + 1
                          /\ new.successful_tasks = old.successful_tasks + ok
                          /\ new.failed_tasks = old.failed_tasks + (1 - ok)]_vars

\* The number of a plan's tasks that are completed, and that are over.
CompletedCount(plan) == Cardinality({i \in DOMAIN plan.tasks : plan.tasks[i].status = "completed"})
AllTasksOver(plan) == \A i \in DOMAIN plan.tasks : plan.tasks[i].status \in {"completed", "failed"}

\* C27: a plan's coordination status is COMPLETED or FAILED exactly when
\* every one of its tasks is completed or failed; it is then COMPLETED
\* exactly when the fraction of completed tasks, which is the stored
\* success_rate, is at least 0.8.
C27_FinalStatusIffAllTasksOver ==
    \A c \in Coordinators : \A plan_id \in DOMAIN ActivePlans(c) :
        LET plan == ActivePlans(c)[plan_id]
        IN  /\ plan.coordination_status \in {COMPLETED, FAILED} <=> AllTasksOver(plan)
            /\ AllTasksOver(plan) =>
                /\ plan.success_rate.num * Len(plan.tasks) = CompletedCount(plan) * plan.success_rate.den
                /\ plan.coordination_status = COMPLETED <=>
                       10 * CompletedCount(plan) >= 8 * Len(plan.tasks)

\* A five-task plan that ended with four tasks completed and one failed:
\* success_rate is exactly 0.8 and the plan is COMPLETED.
C27_Witness ==
    \E plan_id \in DOMAIN ActivePlans(1) :
        LET plan == ActivePlans(1)[plan_id]
        IN  /\ Len(plan.tasks) = 5
            /\ AllTasksOver(plan)
            /\ CompletedCount(plan) = 4
            /\ plan.coordination_status = COMPLETED

\* C28: a task's status only moves pending -> assigned -> completed or
\* failed.  assign_task succeeds only on a pending task, a task leaves
\* 'assigned' only for 'completed' or 'failed' keeping its agent, and a
\* completed or failed task never changes again.
C28_TaskStatusOnlyForward ==
    [][\A c \in Coordinators : \A plan_id \in PlansKept(c) :
          LET before == coordinators[c]._active_plans[plan_id]
              after == coordinators'[c]._active_plans[plan_id]
          IN  \A i \in DOMAIN before.tasks :
                  LET old == before.tasks[i]
                      new == after.tasks[i]
                  IN  /\ old.status = "pending" =>
                             \/ new = old
                             \/ new.status = "assigned" /\ new.assigned_agent # Absent
                      /\ old.status = "assigned" =>
                             /\ new.status \in {"assigned", "completed", "failed"}
                             /\ new.assigned_agent = old.assigned_agent
                      /\ old.status \in {"completed", "failed"} => new = old
                      /\ old.status # "pending" =>
                             \A agent_name \in AgentNames :
                                 ~assign_task(coordinators[c]._active_plans, plan_id,
                                              old.id, agent_name).result]_vars

\* One task completed, one failed and one assigned in the same plan.
C28_Witness ==
    \E plan_id \in DOMAIN ActivePlans(1) :
        LET plan == ActivePlans(1)[plan_id]
        IN  \E i, j, k \in DOMAIN plan.tasks :
               /\ plan.tasks[i].status = "completed"
               /\ plan.tasks[j].status = "failed"
               /\ plan.tasks[k].status = "assigned"
               /\ k < i /\ i < j

\* C26: under a driver that repeatedly takes the task get_next_task
\* returns, assigns it to a known agent and completes it, every plan an
\* instance holds eventually reaches COMPLETED or FAILED.
C26_DriverFinishesEveryPlan ==
    \A c \in Coordinators :
        (ActivePlans(c) # <<>>) ~>
            (\A plan_id \in DOMAIN ActivePlans(c) :
                ActivePlans(c)[plan_id].coordination_status \in {COMPLETED, FAILED})

\* C29: after every log_agent_call, the level stored for each agent is
\* get_level_from_xp of the XP stored for it, and the returned new_level is
\* get_level_from_xp of the returned total_xp.
C29_StoredLevelMatchesStoredXp ==
    tracker # <<>> /\ tracker.last # None =>
        /\ \A a \in DOMAIN tracker.data_file.data.agents :
               tracker.data_file.data.agents[a].level
                   = get_level_from_xp(tracker.data_file.data.agents[a].xp)
        /\ tracker.last[1].new_level = get_level_from_xp(tracker.last[1].total_xp)

\* C30: broadcast_message completes without raising even when a send
\* fails; the connections whose send failed are removed, with their
\* metadata and any user entry left empty, and every other connection stays
\* registered under its user and has been sent the message.
C30_BroadcastSurvivesFailedSends ==
    manager # <<>> /\ manager.last # None =>
        LET before == manager.last[1]
            registered == Range(Keys(manager.active_connections))
        IN  /\ before.outcome = "returned"
            /\ \A i \in DOMAIN before.active_connections :
                  LET user_id == before.active_connections[i].user_id
                  IN  \A websocket \in before.active_connections[i].websockets :
                         IF websocket \in before.closed
                         THEN /\ websocket \notin ConnectionsOf(manager.active_connections, user_id)
                              /\ websocket \notin DOMAIN manager.connection_metadata
                         ELSE /\ websocket \in ConnectionsOf(manager.active_connections, user_id)
                              /\ websocket \in DOMAIN manager.connection_metadata
                              /\ websocket \in manager.sent
            /\ \A i \in DOMAIN manager.active_connections :
                  manager.active_connections[i].websockets # {}

====
